---------------------------- MODULE Spec2Model ----------------------------
(***************************************************************************)
(* A model of the geo_cleaner entity-linking pipeline: text normalisation, *)
(* the status policy, the negation detector, the extractors, the candidate *)
(* retriever, the rerankers, the linker with its deduplication, the        *)
(* exporter's grouping and reports, the persistent vector-index cache of   *)
(* the OntologyBundle with one and with several callers, and the           *)
(* run_pipeline driver with its output files.                              *)
(*                                                                         *)
(* Conventions.  Text is a sequence of one-character strings.  Scores are  *)
(* integers in hundredths (1.0 is 100).  An Optional value is the empty    *)
(* sequence (None) or a one-element sequence.                              *)
(***************************************************************************)
EXTENDS Integers, Sequences, FiniteSets, TLC

VARIABLES
    raw_fields,   \* the sample's raw fields: field key -> text
    cfg,          \* LinkConfig: include_negation, window_chars, tau, delta, top_n
    mentions,     \* result of the last extract() call
    todo,         \* the extracted mentions not yet handed to link_mentions
    linked,       \* linked_entities_all: entities accumulated for the sample
    grouped,      \* result of group_entities_by_label: label -> entity list
    pc,           \* position of the per-sample driver loop
    sp_in,        \* arguments of the last assign_status call
    sp_out,       \* its result
    ents,         \* what the NER model predicted in the last GLiNER call, per field
    threshold,    \* ExtractorConfig.threshold
    oboFile,      \* content hash of the ontology file on disk
    bundles,      \* OntologyBundle instances: instance -> version_hash of its store
    disk,         \* index directories: dir -> file -> what the file holds
    call,         \* the get_or_build_vector_index activation under way, if any
    ret,          \* what the last completed call returned and saw
    builds,       \* number of builds started so far
    lastDone,     \* dir -> model id of the last call that returned from it, None
                  \* once a call for another model id has written to it
    workers,      \* concurrent workers: worker -> its activation, if any
    opened,       \* worker -> the index file its vector_search opened last
    gse_ids,      \* run_pipeline's argument gse_ids
    src_raw,      \* raw_source_dir: study id -> the sample payloads of its raw cache
    env,          \* what the run finds around it: whether CandidateRetriever has from_config
    layout,       \* the run root of the run under way
    raw_dir,      \* run root -> study id -> the raw cache copied into the run
    rpc,          \* position of run_pipeline
    gse_queue,    \* the studies of gse_ids_sorted not yet processed
    gse_id,       \* the study being processed
    gsms_sorted,  \* its samples not yet processed, in gsms_sorted order
    gse_records,  \* the records of the study being processed
    all_gsm_records, \* the records of the studies processed
    gse_to_summary,  \* the summaries of the studies processed, in insertion order
    out_files,        \* run root -> gsm.jsonl, gse_summary.json, corpus_report.json
    at_start,     \* the output files of the run root when the run under way began
    prev,         \* the run root and output files of the last run that completed
    runs,         \* number of runs started
    rt_in,        \* arguments and surroundings of the last retrieve call
    rt_out,       \* the candidates it returned
    rp_records,   \* the records the reports are computed from: study id -> records
    rp_top_n,     \* top_n of compute_gse_summary
    rp_global_n,  \* top_n of compute_corpus_report and of compute_metrics_from_gsm_jsonl
    rp_summaries, \* the study summaries computed so far, in study id order
    rp_report,    \* the corpus report, once computed
    rp_metrics,   \* what compute_metrics_from_gsm_jsonl returned for the same records
    run_cfg,      \* the run configuration handed to run_pipeline
    link_cfg,     \* the LinkConfig _build_link_cfg made of it
    lm,           \* the link_mentions activation under way: its locals and position
    lm_calls,     \* the calls it has made to the detector, the retriever and the reranker
    rr_in,        \* reranker and arguments of the last rerank call
    rr_out        \* the RerankResult it returned

linkVars   == <<raw_fields, cfg, mentions, todo, linked, grouped, pc>>
statusVars == <<sp_in, sp_out>>
extractVars == <<ents, threshold>>
indexVars  == <<oboFile, bundles, disk, call, ret, builds, lastDone>>
workerVars == <<workers, opened>>
pipelineVars == <<gse_ids, src_raw, env, layout, raw_dir, rpc, gse_queue, gse_id,
                  gsms_sorted, gse_records, all_gsm_records, gse_to_summary, out_files,
                  at_start, prev, runs>>
retrieveVars == <<rt_in, rt_out>>
reportVars == <<rp_records, rp_top_n, rp_global_n, rp_summaries, rp_report, rp_metrics>>
configVars == <<run_cfg, link_cfg>>
stepVars == <<lm, lm_calls>>
rerankVars == <<rr_in, rr_out>>
vars == <<raw_fields, cfg, mentions, todo, linked, grouped, pc, sp_in, sp_out, ents,
          threshold, oboFile, bundles, disk, call, ret, builds, lastDone,
          workers, opened, gse_ids, src_raw, env, layout, raw_dir, rpc, gse_queue,
          gse_id, gsms_sorted, gse_records, all_gsm_records, gse_to_summary, out_files,
          at_start, prev, runs, rt_in, rt_out, rp_records, rp_top_n, rp_global_n, rp_summaries,
          rp_report, rp_metrics, run_cfg, link_cfg, lm, lm_calls, rr_in, rr_out>>

None == << >>
Some(v) == <<v>>

-----------------------------------------------------------------------------
(* Strings.  Python compares strings by code point; ord gives the code     *)
(* points of the characters the model uses.                                *)

\* the characters of the model's texts, in code point order
Chars == <<"\n", " ", "-", "/", ":", "A", "C", "D", "E", "F", "N", "O", "T", "X", "_",
           "a", "b", "c", "d", "e", "f", "g", "h", "i", "n", "o", "r", "t",
           "u", "v", "w", "x">>
ord(ch) == CHOOSE i \in 1..Len(Chars) : Chars[i] = ch

lower(ch) ==
    CASE ch = "A" -> "a" [] ch = "C" -> "c" [] ch = "D" -> "d" [] ch = "E" -> "e"
      [] ch = "F" -> "f" [] ch = "N" -> "n" [] ch = "O" -> "o" [] ch = "T" -> "t"
      [] ch = "X" -> "x"
      [] OTHER -> ch

isalnum(ch) ==
    lower(ch) \in {"a", "b", "c", "d", "e", "f", "g", "h", "i", "n", "o", "r", "t",
                   "u", "v", "w", "x"}

\* str.isspace for the characters of the model
isspace(ch) == ch \in {" ", "\n"}

\* a < b for two texts (lexicographic by code point, a proper prefix first)
TextLt(a, b) ==
    \E i \in 1..(Len(b)) :
        /\ \A j \in 1..(i - 1) : j <= Len(a) /\ a[j] = b[j]
        /\ i - 1 <= Len(a)
        /\ (i > Len(a) \/ ord(a[i]) < ord(b[i]))

\* Atomic strings (labels, field keys, concept ids) in Python's order
StrOrder == <<"", "TOY:1", "TOY:2", "TOY:3", "UB:1", "disease", "summary", "tissue", "title">>
StrIdx(s) == CHOOSE i \in 1..Len(StrOrder) : StrOrder[i] = s
StrLt(a, b) == StrIdx(a) < StrIdx(b)

\* sorted(s, key=...) for a key whose order is Lt: Python's sort is stable
SortedBy(s, Lt(_, _)) ==
    LET n == Len(s)
        pos(i) == 1 + Cardinality({j \in 1..n :
                        Lt(s[j], s[i]) \/ (~Lt(s[i], s[j]) /\ j < i)})
    IN [k \in 1..n |-> s[CHOOSE i \in 1..n : pos(i) = k]]

\* s[a:b] for 0 <= a, 0 <= b (Python clamps both ends to len(s))
Slice(s, a, b) ==
    LET hi == IF b > Len(s) THEN Len(s) ELSE b
    IN IF a >= hi THEN << >> ELSE SubSeq(s, a + 1, hi)

Max(a, b) == IF a >= b THEN a ELSE b
Min(a, b) == IF a <= b THEN a ELSE b

RECURSIVE Concat(_)
Concat(ss) == IF ss = << >> THEN << >> ELSE Head(ss) \o Concat(Tail(ss))

\* the elements of s that satisfy Keep, in order
Filter(s, Keep(_)) ==
    LET idx == {i \in 1..Len(s) : Keep(s[i])}
        kth(k) == CHOOSE i \in idx : Cardinality({j \in idx : j < i}) = k - 1
    IN [k \in 1..Cardinality(idx) |-> s[kth(k)]]

Range(s) == {s[i] : i \in 1..Len(s)}

\* list(dict.fromkeys(s)): first occurrences, in order
Dedup(s) ==
    LET first == Filter([i \in 1..Len(s) |-> [i |-> i, v |-> s[i]]],
                        LAMBDA x : \A j \in 1..(x.i - 1) : s[j] # x.v)
    IN [k \in 1..Len(first) |-> first[k].v]

-----------------------------------------------------------------------------
(* ontology_bundle.normalize_text.  NFKC leaves the model's ASCII          *)
(* characters alone.                                                       *)

\* s.split(): the maximal runs of non-space characters
split(s) ==
    LET n == Len(s)
        starts == {i \in 1..n : ~isspace(s[i]) /\ (i = 1 \/ isspace(s[i - 1]))}
        endOf(i) == CHOOSE j \in i..n :
                        /\ \A k \in i..j : ~isspace(s[k])
                        /\ (j = n \/ isspace(s[j + 1]))
        kth(k) == CHOOSE i \in starts : Cardinality({x \in starts : x < i}) = k - 1
    IN [k \in 1..Cardinality(starts) |-> SubSeq(s, kth(k), endOf(kth(k)))]

\* s.strip()
strip(s) ==
    LET keep == {i \in 1..Len(s) : ~isspace(s[i])}
    IN IF keep = {} THEN << >>
       ELSE SubSeq(s, CHOOSE i \in keep : \A j \in keep : i <= j,
                      CHOOSE i \in keep : \A j \in keep : i >= j)

\* sep.join(words)
join(sep, words) ==
    Concat([k \in 1..Len(words) |-> IF k = 1 THEN words[k] ELSE sep \o words[k]])

normalize_text(s) ==
    LET lowered == [i \in 1..Len(s) |-> lower(s[i])]
        spaced  == [i \in 1..Len(s) |-> IF isalnum(lowered[i]) THEN lowered[i] ELSE " "]
    IN join(<<" ">>, split(spaced))

-----------------------------------------------------------------------------
(* status_policy                                                           *)

assign_status_strict(best, margin, tau, delta) ==
    IF best >= tau /\ margin > delta THEN "RESOLVED"
    ELSE IF best >= tau /\ margin <= delta THEN "AMBIGUOUS"
    ELSE "UNRESOLVED"

assign_status(best, margin, tau, delta) ==
    IF best >= tau /\ margin >= delta THEN "RESOLVED"
    ELSE IF best >= tau /\ margin < delta THEN "AMBIGUOUS"
    ELSE "UNRESOLVED"

-----------------------------------------------------------------------------
(* contracts                                                               *)

FieldOffsets(field_key, start, end) ==
    [field_key |-> field_key, start |-> start, end |-> end]

\* FieldOffsets' field constraints and _validate_span
ValidOffsets(o) == o.field_key # "" /\ o.start >= 0 /\ o.end >= 0 /\ o.end >= o.start

\* Mention's field constraints and _validate_span (extractor_conf in [0, 1])
ValidMention(m) ==
    /\ m.label # "" /\ m.surface_form # << >> /\ m.source_field # ""
    /\ m.start >= 0 /\ m.end >= 0
    /\ m.extractor_conf >= 0 /\ m.extractor_conf <= 100
    /\ m.end >= m.start

\* Mention.offsets()
offsets(m) == FieldOffsets(m.source_field, m.start, m.end)

\* what LinkedEntity's validation rejects (it raises ValueError)
ValidEntity(p) ==
    /\ p.label # "" /\ p.surface_form # << >> /\ p.source_field # ""
    /\ ValidOffsets(p.offsets)
    /\ \A i \in 1..Len(p.provenances) : ValidOffsets(p.provenances[i])
    /\ ~(p.status = "RESOLVED" /\ (p.linked_id = None \/ p.linked_id = Some("")))
    /\ p.offsets.field_key = p.source_field

\* _validate_policy on a payload that passes: the primary offsets are put first
\* only when the provenance list does not hold them at all
LinkedEntity(p) ==
    [p EXCEPT !.provenances =
        IF p.provenances = << >> THEN <<p.offsets>>
        ELSE IF p.offsets \notin Range(p.provenances) THEN <<p.offsets>> \o p.provenances
        ELSE p.provenances]

-----------------------------------------------------------------------------
(* negation                                                                *)

NEG_PATTERNS ==
    << <<"n", "o">>,
       <<"n", "o", "t">>,
       <<"w", "i", "t", "h", "o", "u", "t">>,
       <<"n", "e", "g", "a", "t", "i", "v", "e", " ", "f", "o", "r">>,
       <<"n", "o", " ", "e", "v", "i", "d", "e", "n", "c", "e", " ", "o", "f">> >>

\* \w of the re module
isword(ch) == isalnum(ch) \/ ch = "_"

\* \b between positions i - 1 and i of w (1-based; the ends count as non-word)
boundary(w, i) ==
    LET before == i > 1 /\ isword(w[i - 1])
        after  == i <= Len(w) /\ isword(w[i])
    IN before # after

\* re.compile(r"\b<pat>\b", re.IGNORECASE).search(w) finds a match
search(pat, w) ==
    \E i \in 1..(Len(w) - Len(pat) + 1) :
        /\ \A k \in 1..Len(pat) : lower(w[i + k - 1]) = pat[k]
        /\ boundary(w, i)
        /\ boundary(w, i + Len(pat))

any_pattern(w) == \E k \in 1..Len(NEG_PATTERNS) : search(NEG_PATTERNS[k], w)

\* as negation_window, without the text that follows the start of the mention
negation_window_before(text, m, window_chars) ==
    Slice(text, Max(0, m.start - window_chars), Min(Len(text), m.start))

negation_window(text, m, window_chars) ==
    Slice(text, Max(0, m.start - window_chars), Min(Len(text), m.end + window_chars))

is_negated(raw, m, window_chars) ==
    IF m.source_field \notin DOMAIN raw \/ raw[m.source_field] = << >> THEN FALSE
    ELSE any_pattern(negation_window(raw[m.source_field], m, window_chars))

-----------------------------------------------------------------------------
(* OntologyStore: the concepts in the order add_concept saw them           *)

Concept(id, label, synonyms, definition) ==
    [concept_id |-> id, label |-> label, synonyms |-> synonyms, definition |-> definition]

Stores ==
    [doid |-> << Concept("TOY:1", <<"c">>, << >>, Some("def")),
                 Concept("TOY:2", <<"c">>, << >>, None),
                 Concept("TOY:3", <<"d">>, << >>, None) >>,
     uberon |-> << Concept("UB:1", <<"d">>, << >>, None) >>]

\* pipeline's label -> ontology dispatch
label_to_ont(lbl) == IF lbl = "tissue" THEN "uberon" ELSE "doid"

\* the terms add_concept indexes: label and synonyms, empty ones skipped
terms(c) == Filter(<<c.label>> \o c.synonyms, LAMBDA t : t # << >>)

concept(store, cid) == CHOOSE c \in Range(store) : c.concept_id = cid

concept_ids(cs) == [i \in 1..Len(cs) |-> cs[i].concept_id]

has_normalized_term(c, n) ==
    \E t \in Range(terms(c)) : normalize_text(t) # << >> /\ normalize_text(t) = n

\* add_concept fills lexical_exact[term] in concept order; lookup_exact dedups
lookup_exact(store, s) ==
    Dedup(concept_ids(Filter(store, LAMBDA c : s \in Range(terms(c)))))

lookup_normalized(store, s) ==
    Dedup(concept_ids(Filter(store, LAMBDA c : has_normalized_term(c, normalize_text(s)))))

-----------------------------------------------------------------------------
(* candidate_retrieval                                                     *)

Candidate(id, label, score, source, definition) ==
    [candidate_id |-> id, candidate_label |-> label, score |-> score,
     source |-> source, definition |-> definition]

\* RetrievalConfig defaults
RetrievalConfig ==
    [top_k |-> 10, lexical_exact_score |-> 100, lexical_norm_score |-> 90,
     vector_min_score |-> -100, include_definitions |-> TRUE]

\* order of sorted(..., key=lambda c: (-float(c.score), c.candidate_id))
CandLt(a, b) ==
    \/ a.score > b.score
    \/ a.score = b.score /\ StrLt(a.candidate_id, b.candidate_id)

ids(cands) == {cands[i].candidate_id : i \in 1..Len(cands)}

\* cobj.definition if include_definitions else None (None for an unknown concept)
definition_of(store, rcfg, cid) ==
    IF rcfg.include_definitions /\ cid \in Range(concept_ids(store))
    THEN concept(store, cid).definition ELSE None

lexical_candidate(store, rcfg, cid, score, source) ==
    Candidate(cid, concept(store, cid).label, score, Some(source),
              definition_of(store, rcfg, cid))

\* retrieve, step 1: the exact hits
merge_exact(store, rcfg, exact) ==
    [i \in 1..Len(exact) |->
        lexical_candidate(store, rcfg, exact[i], rcfg.lexical_exact_score, "lexical_exact")]

\* as merge_normalized, a normalized hit replacing the candidate already merged
RECURSIVE merge_normalized_overwriting(_, _, _, _)
merge_normalized_overwriting(store, rcfg, norm, merged) ==
    IF norm = << >> THEN merged
    ELSE merge_normalized_overwriting(store, rcfg, Tail(norm),
            IF Head(norm) \in ids(merged)
            THEN [k \in 1..Len(merged) |->
                    IF merged[k].candidate_id = Head(norm)
                    THEN lexical_candidate(store, rcfg, Head(norm),
                                           rcfg.lexical_norm_score, "lexical_norm")
                    ELSE merged[k]]
            ELSE Append(merged, lexical_candidate(store, rcfg, Head(norm),
                                    rcfg.lexical_norm_score, "lexical_norm")))

\* retrieve, step 1: the normalized hits not already merged
RECURSIVE merge_normalized(_, _, _, _)
merge_normalized(store, rcfg, norm, merged) ==
    IF norm = << >> THEN merged
    ELSE merge_normalized(store, rcfg, Tail(norm),
            IF Head(norm) \in ids(merged) THEN merged
            ELSE Append(merged, lexical_candidate(store, rcfg, Head(norm),
                                    rcfg.lexical_norm_score, "lexical_norm")))

\* as merge_one_vector, with the source of the higher score
merge_one_vector_resourced(store, rcfg, vc, merged) ==
    IF vc.score < rcfg.vector_min_score THEN merged
    ELSE IF vc.candidate_id \in ids(merged)
    THEN [k \in 1..Len(merged) |->
            IF merged[k].candidate_id = vc.candidate_id /\ vc.score > merged[k].score
            THEN [merged[k] EXCEPT !.score = vc.score, !.source = Some("vector")]
            ELSE merged[k]]
    ELSE Append(merged, Candidate(vc.candidate_id, vc.candidate_label, vc.score,
                                  Some("vector"), definition_of(store, rcfg, vc.candidate_id)))

\* one vector candidate merged: dropped below vector_min_score, the maximum of
\* the scores for a concept already merged, inserted otherwise
merge_one_vector(store, rcfg, vc, merged) ==
    IF vc.score < rcfg.vector_min_score THEN merged
    ELSE IF vc.candidate_id \in ids(merged)
    THEN [k \in 1..Len(merged) |->
            IF merged[k].candidate_id = vc.candidate_id /\ vc.score > merged[k].score
            THEN [merged[k] EXCEPT !.score = vc.score]
            ELSE merged[k]]
    ELSE Append(merged, Candidate(vc.candidate_id, vc.candidate_label, vc.score,
                                  Some("vector"), definition_of(store, rcfg, vc.candidate_id)))

\* retrieve, step 2
RECURSIVE merge_vector(_, _, _, _)
merge_vector(store, rcfg, vec_cands, merged) ==
    IF vec_cands = << >> THEN merged
    ELSE merge_vector(store, rcfg, Tail(vec_cands),
                      merge_one_vector(store, rcfg, Head(vec_cands), merged))

\* as step 3, cut before it is sorted
top_k_then_sorted(rcfg, merged) == SortedBy(Slice(merged, 0, rcfg.top_k), CandLt)

\* retrieve, step 3
top_k_sorted(rcfg, merged) == Slice(SortedBy(merged, CandLt), 0, rcfg.top_k)

\* CandidateRetriever.retrieve; vec_cands is what bundle.vector_search returned,
\* has_embedder says whether an embedder is configured
retrieve(store, rcfg, has_embedder, vec_cands, mention_text) ==
    top_k_sorted(rcfg,
        merge_vector(store, rcfg, IF has_embedder THEN vec_cands ELSE << >>,
            merge_normalized(store, rcfg, lookup_normalized(store, mention_text),
                merge_exact(store, rcfg, lookup_exact(store, mention_text)))))

-----------------------------------------------------------------------------
(* reranker                                                                *)

\* as RerankResult, the margin taken to the last candidate
RerankResult_margin_to_last(top) ==
    [best |-> IF top = << >> THEN None ELSE Some(top[1]),
     best_score |-> IF top = << >> THEN 0 ELSE top[1].score,
     margin |-> IF Len(top) > 1 THEN top[1].score - top[Len(top)].score
                ELSE IF top = << >> THEN 0 ELSE 100,
     top |-> top]

RerankResult(top) ==
    [best |-> IF top = << >> THEN None ELSE Some(top[1]),
     best_score |-> IF top = << >> THEN 0 ELSE top[1].score,
     margin |-> IF Len(top) > 1 THEN top[1].score - top[2].score
                ELSE IF top = << >> THEN 0 ELSE 100,
     top |-> top]

\* Candidate(**{**c.model_dump(), "source": c.source or "rerank"})
keep_source(c) == IF c.source = None THEN [c EXCEPT !.source = Some("rerank")] ELSE c

\* DummyReranker.rerank: the incoming scores, source kept when there is one
DummyRerank(mention_text, context, candidates) ==
    RerankResult(SortedBy([i \in 1..Len(candidates) |-> keep_source(candidates[i])], CandLt))

\* The cross-encoder is an external model: a function of the (query, rhs) pair.
\* Two models stand for it: "flat" scores every pair alike, "len" scores by the
\* length of the query and favours a right-hand side that carries a definition.
predict(model, query, rhs_label, rhs_def) ==
    IF model = "flat" THEN 75
    ELSE 50 + 15 * (Len(query) % 3) + (IF rhs_def = None THEN 0 ELSE 20)

\* f"{mention_text}\n\nCONTEXT:\n{context}".strip()
query_of(mention_text, context) ==
    strip(mention_text \o <<"\n", "\n", "C", "O", "N", "T", "E", "X", "T", ":", "\n">>
          \o context)

rescore(model, query, c) ==
    [c EXCEPT !.score = predict(model, query, c.candidate_label, c.definition),
              !.source = Some("rerank")]

\* CrossEncoderReranker.rerank
CrossEncoderRerank(model, mention_text, context, candidates) ==
    IF candidates = << >> THEN RerankResult(<< >>)
    ELSE RerankResult(SortedBy([i \in 1..Len(candidates) |->
                                  rescore(model, query_of(mention_text, context),
                                          candidates[i])],
                               CandLt))

rerank(reranker, mention_text, context, candidates) ==
    IF reranker = "dummy" THEN DummyRerank(mention_text, context, candidates)
    ELSE CrossEncoderRerank(reranker, mention_text, context, candidates)

-----------------------------------------------------------------------------
(* linker                                                                  *)

field_text(raw, field) == IF field \in DOMAIN raw THEN raw[field] ELSE << >>

local_context(raw, m, window_chars) ==
    IF field_text(raw, m.source_field) = << >> THEN << >>
    ELSE Slice(field_text(raw, m.source_field),
               Max(0, m.start - window_chars),
               Min(Len(field_text(raw, m.source_field)), m.end + window_chars))

\* the linked_id argument of the LinkedEntity built from a rerank result
linked_id_any_status(status, best) ==
    IF best # None THEN Some(best[1].candidate_id) ELSE None

linked_id_of(status, best) ==
    IF status = "RESOLVED" /\ best # None THEN Some(best[1].candidate_id) ELSE None

\* the constructor arguments of the entities built without candidates
blank_payload(m, status) ==
    [label |-> m.label, surface_form |-> m.surface_form,
     source_field |-> m.source_field, offsets |-> offsets(m),
     status |-> status, linked_id |-> None, score |-> None, margin |-> None,
     top_candidates |-> << >>, provenances |-> <<offsets(m)>>]

\* candidate retention
top_keep_one(top, status, top_n) == Slice(top, 0, 1)

top_keep(top, status, top_n) ==
    IF status \in {"AMBIGUOUS", "UNRESOLVED"} THEN Slice(top, 0, top_n) ELSE Slice(top, 0, 1)

\* the constructor arguments of the entity built from a rerank result
ranked_payload(m, c, rr, status) ==
    [blank_payload(m, status) EXCEPT
        !.linked_id = linked_id_of(status, rr.best),
        !.score = IF rr.best # None THEN Some(rr.best_score) ELSE None,
        !.margin = IF rr.best # None THEN Some(rr.margin) ELSE None,
        !.top_candidates = top_keep(rr.top, status, c.top_n)]

reranked_payload(m, c, rr) ==
    ranked_payload(m, c, rr, assign_status(rr.best_score, rr.margin, c.tau, c.delta))

retrieved_payload(raw, m, c, cands) ==
    IF cands = << >> THEN blank_payload(m, "UNRESOLVED")
    ELSE reranked_payload(m, c,
            rerank(c.reranker, m.surface_form,
                   local_context(raw, m, c.context_window_chars), cands))

\* whether the negation branch of the loop is taken
rejects_ignoring_switch(raw, m, c) == is_negated(raw, m, c.window_chars)

rejects(raw, m, c) == c.include_negation /\ is_negated(raw, m, c.window_chars)

\* the constructor arguments link_mentions passes for mention m
link_payload(raw, m, store, c) ==
    IF rejects(raw, m, c) THEN blank_payload(m, "REJECTED")
    ELSE retrieved_payload(raw, m, c,
            retrieve(store, RetrievalConfig, FALSE, << >>, m.surface_form))

STATUS_RANK(status) ==
    CASE status = "RESOLVED" -> 3 [] status = "AMBIGUOUS" -> 2
      [] status = "UNRESOLVED" -> 1 [] status = "REJECTED" -> 0

\* as key, without the status
key_by_surface_form(e) == <<e.label, "SF::", normalize_text(e.surface_form)>>

\* dedup_entities.key
key(e) ==
    IF e.status = "RESOLVED" /\ e.linked_id \notin {None, Some("")}
    THEN <<e.label, "ID::", e.linked_id>>
    ELSE <<e.label, "SF::", normalize_text(e.surface_form)>>

\* for p in e.provenances: if p not in prov: prov.append(p)
RECURSIVE append_unseen(_, _)
append_unseen(prov, ps) ==
    IF ps = << >> THEN prov
    ELSE append_unseen(IF Head(ps) \in Range(prov) THEN prov ELSE Append(prov, Head(ps)),
                       Tail(ps))

\* prov = list(base.provenances), then the loop over e.provenances
merge_provenances_base_only(base_prov, e_prov) == base_prov

merge_provenances(base_prov, e_prov) == append_unseen(base_prov, e_prov)

\* which of the two colliding entities survives
chosen_later_on_tie(base, e) ==
    IF STATUS_RANK(base.status) > STATUS_RANK(e.status) THEN base ELSE e

chosen(base, e) ==
    IF STATUS_RANK(base.status) >= STATUS_RANK(e.status) THEN base ELSE e

\* the body of dedup_entities' loop on a collision
merge(base, e) ==
    LinkedEntity([chosen(base, e) EXCEPT
                    !.provenances = merge_provenances(base.provenances, e.provenances)])

\* one iteration of dedup_entities' loop; merged holds <<key, entity>> in
\* first-occurrence order
dedup_step(merged, e) ==
    IF \A j \in 1..Len(merged) : merged[j].k # key(e)
    THEN Append(merged, [k |-> key(e), e |-> e])
    ELSE [j \in 1..Len(merged) |->
            IF merged[j].k = key(e) THEN [k |-> merged[j].k, e |-> merge(merged[j].e, e)]
            ELSE merged[j]]

entities_of(merged) == [j \in 1..Len(merged) |-> merged[j].e]

\* dedup_entities' loop over the entities that are left
RECURSIVE dedup_loop(_, _)
dedup_loop(merged, entities) ==
    IF entities = << >> THEN entities_of(merged)
    ELSE dedup_loop(dedup_step(merged, Head(entities)), Tail(entities))

dedup_entities(entities) == dedup_loop(<< >>, entities)

\* the list link_mentions has built when its loop ends
link_out(raw, ms, store, c) ==
    [i \in 1..Len(ms) |-> LinkedEntity(link_payload(raw, ms[i], store, c))]

\* link_mentions raises when a LinkedEntity it builds is rejected
link_raises(raw, ms, store, c) ==
    \E i \in 1..Len(ms) : ~ValidEntity(link_payload(raw, ms[i], store, c))

link_mentions(raw, ms, store, c) == dedup_entities(link_out(raw, ms, store, c))

-----------------------------------------------------------------------------
(* exporter                                                                *)

\* as _sort_candidates_in_entity, without the sort
candidates_as_given(e) == LinkedEntity(e)

_sort_candidates_in_entity(e) ==
    LinkedEntity([e EXCEPT !.top_candidates = SortedBy(e.top_candidates, CandLt)])

\* order of _sort_entities' key
EntityLt(a, b) ==
    LET ra == -STATUS_RANK(a.status)
        rb == -STATUS_RANK(b.status)
        ia == IF a.linked_id = None THEN "" ELSE a.linked_id[1]
        ib == IF b.linked_id = None THEN "" ELSE b.linked_id[1]
    IN \/ ra < rb
       \/ ra = rb /\ StrLt(ia, ib)
       \/ ra = rb /\ ia = ib /\ StrLt(a.source_field, b.source_field)
       \/ ra = rb /\ ia = ib /\ a.source_field = b.source_field
            /\ a.offsets.start < b.offsets.start
       \/ ra = rb /\ ia = ib /\ a.source_field = b.source_field
            /\ a.offsets.start = b.offsets.start /\ a.offsets.end < b.offsets.end
       \/ ra = rb /\ ia = ib /\ a.source_field = b.source_field
            /\ a.offsets.start = b.offsets.start /\ a.offsets.end = b.offsets.end
            /\ TextLt(a.surface_form, b.surface_form)

_sort_entities(entities) ==
    SortedBy([i \in 1..Len(entities) |-> _sort_candidates_in_entity(entities[i])], EntityLt)

\* the sorted keys of a set of atomic strings
SortedStrs(S) == SortedBy([k \in 1..Cardinality(S) |->
                              CHOOSE x \in S : Cardinality({y \in S : StrLt(y, x)}) = k - 1],
                          StrLt)

\* the mapping as its items in key order: <<label, entities>>
group_entities_by_label(entities) ==
    LET labels == SortedStrs({entities[i].label : i \in 1..Len(entities)})
    IN [k \in 1..Len(labels) |->
          [label |-> labels[k],
           entities |-> _sort_entities(Filter(entities, LAMBDA e : e.label = labels[k]))]]

\* the sorted list of a set of texts
SortedTexts(S) ==
    [k \in 1..Cardinality(S) |->
        CHOOSE x \in S : Cardinality({y \in S : TextLt(y, x)}) = k - 1]

RECURSIVE sum(_)
sum(ns) == IF ns = << >> THEN 0 ELSE Head(ns) + sum(Tail(ns))

\* the number of entities with the status
count_status(entities, status) ==
    Cardinality({i \in 1..Len(entities) : entities[i].status = status})

YieldStats(total, resolved, ambiguous, unresolved, rejected) ==
    [total |-> total, resolved |-> resolved, ambiguous |-> ambiguous,
     unresolved |-> unresolved, rejected |-> rejected]

\* as _yield_stats_from_entities, without the count of REJECTED entities
yield_stats_without_rejected(entities) ==
    YieldStats(Len(entities), count_status(entities, "RESOLVED"),
               count_status(entities, "AMBIGUOUS"), count_status(entities, "UNRESOLVED"), 0)

\* ys.total += 1 for every entity, and the counter of its status
_yield_stats_from_entities(entities) ==
    YieldStats(Len(entities), count_status(entities, "RESOLVED"),
               count_status(entities, "AMBIGUOUS"), count_status(entities, "UNRESOLVED"),
               count_status(entities, "REJECTED"))

SurfaceFormCount(label, source_field, surface_form, count) ==
    [label |-> label, source_field |-> source_field, surface_form |-> surface_form,
     count |-> count]

\* the Counter key of an entity or of a SurfaceFormCount
sf_key(x) == <<x.label, x.source_field, x.surface_form>>

\* order of the keys (label, source_field, surface_form)
KeyLt(a, b) ==
    \/ StrLt(a[1], b[1])
    \/ a[1] = b[1] /\ StrLt(a[2], b[2])
    \/ a[1] = b[1] /\ a[2] = b[2] /\ TextLt(a[3], b[3])

\* order of the sort key (-count, label, source_field, surface_form)
CountLt(x, y) ==
    \/ x.count > y.count
    \/ x.count = y.count /\ KeyLt(sf_key(x), sf_key(y))

\* as weight, a SurfaceFormCount entering with 1 as an entity does
unit_weight(x) == 1

\* the weight with which x enters a Counter: 1 for an entity, its count for a
\* SurfaceFormCount
weight(x) == IF "count" \in DOMAIN x THEN x.count ELSE 1

\* counter.items(): the keys in first-occurrence order, each with its total
counter_items(xs) ==
    LET keys == Dedup([i \in 1..Len(xs) |-> sf_key(xs[i])])
    IN [k \in 1..Len(keys) |->
          SurfaceFormCount(keys[k][1], keys[k][2], keys[k][3],
              sum([i \in 1..Len(xs) |-> IF sf_key(xs[i]) = keys[k] THEN weight(xs[i]) ELSE 0]))]

\* sorted(counter.items(), key=...)[:n]
counter_top(xs, n) == Slice(SortedBy(counter_items(xs), CountLt), 0, n)

\* the entities whose status is in statuses
with_status(entities, statuses) ==
    LET idx == {i \in 1..Len(entities) : entities[i].status \in statuses}
        kth(k) == CHOOSE i \in idx : Cardinality({j \in idx : j < i}) = k - 1
    IN [k \in 1..Cardinality(idx) |-> entities[kth(k)]]

\* as _top_surface_forms, counting the entities of every status
top_surface_forms_any_status(entities, statuses, top_n) == counter_top(entities, top_n)

_top_surface_forms(entities, statuses, top_n) ==
    counter_top(with_status(entities, statuses), top_n)

\* r.entities.get(lbl, []) for a mapping given as its items
entities_get(items, lbl) ==
    IF \E k \in 1..Len(items) : items[k].label = lbl
    THEN items[CHOOSE k \in 1..Len(items) : items[k].label = lbl].entities
    ELSE << >>

\* the entities of a record, label by label
record_entities(r) == Concat([k \in 1..Len(r.entities) |-> r.entities[k].entities])

\* the entities of the records
records_entities(gsm_records) ==
    Concat([i \in 1..Len(gsm_records) |-> record_entities(gsm_records[i])])

\* the label keys of the records
records_labels(gsm_records) ==
    UNION {{gsm_records[i].entities[k].label : k \in 1..Len(gsm_records[i].entities)} :
              i \in 1..Len(gsm_records)}

\* the entities the records hold under the label
label_entities(gsm_records, lbl) ==
    Concat([i \in 1..Len(gsm_records) |-> entities_get(gsm_records[i].entities, lbl)])

\* yields_by_label of a study, as its items in key order
gse_yields(gsm_records) ==
    LET labels == SortedStrs(records_labels(gsm_records))
    IN [k \in 1..Len(labels) |->
          [label |-> labels[k],
           stats |-> _yield_stats_from_entities(label_entities(gsm_records, labels[k]))]]

GSESummary(gse, n_gsm_processed, yields_by_label, top_ambiguous, top_unresolved) ==
    [gse_id |-> gse, n_gsm_processed |-> n_gsm_processed,
     yields_by_label |-> yields_by_label, top_ambiguous |-> top_ambiguous,
     top_unresolved |-> top_unresolved]

compute_gse_summary(gse, gsm_records, top_n) ==
    GSESummary(gse, Len(gsm_records), gse_yields(gsm_records),
               _top_surface_forms(records_entities(gsm_records), {"AMBIGUOUS"}, top_n),
               _top_surface_forms(records_entities(gsm_records), {"UNRESOLVED"}, top_n))

\* the YieldStats a summary holds for the label, or the empty one
stats_get(summary, lbl) ==
    IF \E k \in 1..Len(summary.yields_by_label) : summary.yields_by_label[k].label = lbl
    THEN summary.yields_by_label[
            CHOOSE k \in 1..Len(summary.yields_by_label) :
                summary.yields_by_label[k].label = lbl].stats
    ELSE YieldStats(0, 0, 0, 0, 0)

\* agg[lbl] after the loop over the summaries
agg_stats(summaries, lbl) ==
    YieldStats(sum([i \in 1..Len(summaries) |-> stats_get(summaries[i], lbl).total]),
               sum([i \in 1..Len(summaries) |-> stats_get(summaries[i], lbl).resolved]),
               sum([i \in 1..Len(summaries) |-> stats_get(summaries[i], lbl).ambiguous]),
               sum([i \in 1..Len(summaries) |-> stats_get(summaries[i], lbl).unresolved]),
               sum([i \in 1..Len(summaries) |-> stats_get(summaries[i], lbl).rejected]))

\* aggregate_yields_by_label, as its items in key order
aggregate_yields(summaries) ==
    LET labels == SortedStrs(UNION {{summaries[i].yields_by_label[k].label :
                                        k \in 1..Len(summaries[i].yields_by_label)} :
                                    i \in 1..Len(summaries)})
    IN [k \in 1..Len(labels) |->
          [label |-> labels[k], stats |-> agg_stats(summaries, labels[k])]]

\* the top lists of the summaries, one after the other
top_lists(summaries, name) ==
    Concat([i \in 1..Len(summaries) |-> summaries[i][name]])

\* gse_to_summary is given as the summaries in insertion order
compute_corpus_report(run_id, manifest_path, gse_selected, summaries, top_n) ==
    [run_id |-> run_id, manifest_path |-> manifest_path,
     n_gse_selected |-> Len(gse_selected), n_gse_processed |-> Len(summaries),
     gse_selected |-> gse_selected,
     gse_processed |-> SortedTexts({summaries[i].gse_id : i \in 1..Len(summaries)}),
     aggregate_yields_by_label |-> aggregate_yields(summaries),
     global_top_ambiguous |-> counter_top(top_lists(summaries, "top_ambiguous"), top_n),
     global_top_unresolved |-> counter_top(top_lists(summaries, "top_unresolved"), top_n)]

-----------------------------------------------------------------------------
(* experiments/metrics                                                     *)

\* the entities of a line of gsm.jsonl, each under the label key of the
\* entities mapping that holds it
line_entities(r) ==
    Concat([k \in 1..Len(r.entities) |->
               [i \in 1..Len(r.entities[k].entities) |->
                   [r.entities[k].entities[i] EXCEPT !.label = r.entities[k].label]]])

\* _inc over the entities: the four status counts of the label
status_counts(entities, lbl) ==
    [s \in {"RESOLVED", "AMBIGUOUS", "UNRESOLVED", "REJECTED"} |->
        Cardinality({i \in 1..Len(entities) :
                        entities[i].label = lbl /\ entities[i].status = s})]

Metrics(n_gsm, n_entities, yields_by_label, top_ambiguous, top_unresolved) ==
    [n_gsm |-> n_gsm, n_entities |-> n_entities, yields_by_label |-> yields_by_label,
     top_ambiguous |-> top_ambiguous, top_unresolved |-> top_unresolved]

\* compute_metrics_from_gsm_jsonl over the lines of gsm.jsonl; top(counter)
\* sorts by (-count, label, source_field, surface_form) and cuts at top_n
compute_metrics_from_gsm_jsonl(lines, top_n) ==
    LET entities == Concat([i \in 1..Len(lines) |-> line_entities(lines[i])])
        labels == SortedStrs({entities[i].label : i \in 1..Len(entities)})
    IN Metrics(Len(lines), Len(entities),
               [k \in 1..Len(labels) |->
                   [label |-> labels[k], stats |-> status_counts(entities, labels[k])]],
               counter_top(with_status(entities, {"AMBIGUOUS"}), top_n),
               counter_top(with_status(entities, {"UNRESOLVED"}), top_n))

-----------------------------------------------------------------------------
(* extractor                                                               *)

Mention(label, surface_form, source_field, start, end, conf) ==
    [label |-> label, surface_form |-> surface_form, source_field |-> source_field,
     start |-> start, end |-> end, extractor_conf |-> conf]

\* order of _sorted_mentions' key
MentionLt(a, b) ==
    \/ StrLt(a.source_field, b.source_field)
    \/ a.source_field = b.source_field /\ a.start < b.start
    \/ a.source_field = b.source_field /\ a.start = b.start /\ a.end < b.end
    \/ a.source_field = b.source_field /\ a.start = b.start /\ a.end = b.end
         /\ StrLt(a.label, b.label)
    \/ a.source_field = b.source_field /\ a.start = b.start /\ a.end = b.end
         /\ a.label = b.label /\ TextLt(a.surface_form, b.surface_form)

_sorted_mentions(ms) == SortedBy(ms, MentionLt)

\* The patterns of the model's RegexExtractor, compiled with re.IGNORECASE:
\* disease = \b[cd]\b, tissue = \bd\b, and one that matches the empty string.
Patterns ==
    << [label |-> "disease", word |-> TRUE,  cls |-> << {"c", "d"} >>],
       [label |-> "tissue",  word |-> TRUE,  cls |-> << {"d"} >>],
       [label |-> "junk",    word |-> FALSE, cls |-> << >>] >>

\* rx.match(text, i) succeeds (i is 0-based)
match_at(pat, text, i) ==
    /\ i + Len(pat.cls) <= Len(text)
    /\ \A k \in 1..Len(pat.cls) : lower(text[i + k]) \in pat.cls[k]
    /\ pat.word => boundary(text, i + 1) /\ boundary(text, i + 1 + Len(pat.cls))

\* rx.finditer(text): leftmost non-overlapping matches; after an empty match
\* the scan moves one character on
RECURSIVE finditer(_, _, _)
finditer(pat, text, i) ==
    IF i > Len(text) THEN << >>
    ELSE IF match_at(pat, text, i)
    THEN <<[start |-> i, end |-> i + Len(pat.cls)]>>
            \o finditer(pat, text, IF pat.cls = << >> THEN i + 1 ELSE i + Len(pat.cls))
    ELSE finditer(pat, text, i + 1)

\* the keys of raw_fields in the dict's order
FieldOrder == <<"summary", "title">>

\* the mentions of one (field, pattern) pair
spans_to_mentions(pat, field_key, text, spans) ==
    [k \in 1..Len(spans) |->
        Mention(pat.label, Slice(text, spans[k].start, spans[k].end),
                field_key, spans[k].start, spans[k].end, 100)]

field_mentions(field_key, text) ==
    IF text = << >> THEN << >>
    ELSE Concat([p \in 1..Len(Patterns) |->
            spans_to_mentions(Patterns[p], field_key, text,
                Filter(finditer(Patterns[p], text, 0), LAMBDA m : m.start # m.end))])

\* RegexExtractor.extract before the final sort
regex_out(raw) ==
    Concat([f \in 1..Len(FieldOrder) |-> field_mentions(FieldOrder[f], raw[FieldOrder[f]])])

RegexExtract(raw) == _sorted_mentions(regex_out(raw))

-----------------------------------------------------------------------------
(* The inputs of the model                                                 *)

MaxWords == 3

Vocabulary == { <<"n", "o">>, <<"c">>, <<"C">>, <<"d">> }

WordSeqs(n) == UNION {[1..k -> Vocabulary] : k \in 0..n}

\* raw fields whose texts hold at most n words together
RawFieldChoices(n) ==
    {[summary |-> join(<<" ">>, p[1]), title |-> join(<<" ">>, p[2])] :
        p \in {q \in WordSeqs(n) \X WordSeqs(n) : Len(q[1]) + Len(q[2]) <= n}}

\* PolicyConfig and LinkConfig defaults
PolicyConfig == [tau |-> 70, delta |-> 10, top_n |-> 5]
LinkConfig ==
    [include_negation |-> FALSE, window_chars |-> 60, context_window_chars |-> 200,
     tau |-> PolicyConfig.tau, delta |-> PolicyConfig.delta, top_n |-> PolicyConfig.top_n,
     reranker |-> "dummy"]

\* the configurations of the model: the defaults, negation on with a window of 60
\* or of 3 characters, a stricter tau, each of the rerankers
LinkConfigs ==
    { LinkConfig,
      [LinkConfig EXCEPT !.include_negation = TRUE],
      [LinkConfig EXCEPT !.include_negation = TRUE, !.window_chars = 3, !.tau = 95],
      [LinkConfig EXCEPT !.include_negation = TRUE, !.reranker = "flat"],
      [LinkConfig EXCEPT !.include_negation = TRUE, !.window_chars = 3, !.reranker = "len"],
      [LinkConfig EXCEPT !.reranker = "len", !.tau = 95] }

\* values of the variables a specification does not use
IdleLink ==
    /\ raw_fields = [summary |-> << >>, title |-> << >>]
    /\ cfg = LinkConfig
    /\ mentions = << >> /\ todo = << >> /\ linked = << >> /\ grouped = << >>
    /\ pc = "idle"
IdleStatus == sp_in = << >> /\ sp_out = ""
IdleExtract == ents = << >> /\ threshold = 0
IdleIndex ==
    /\ oboFile = "" /\ bundles = << >> /\ disk = << >> /\ call = None /\ ret = None
    /\ builds = 0 /\ lastDone = << >>
IdleWorkers == workers = << >> /\ opened = << >>
IdlePipeline ==
    /\ gse_ids = << >> /\ src_raw = << >> /\ env = << >> /\ layout = ""
    /\ raw_dir = << >> /\ rpc = "idle" /\ gse_queue = << >> /\ gse_id = << >>
    /\ gsms_sorted = << >> /\ gse_records = << >> /\ all_gsm_records = << >>
    /\ gse_to_summary = << >> /\ out_files = << >> /\ at_start = << >> /\ prev = << >>
    /\ runs = 0
IdleRetrieve == rt_in = << >> /\ rt_out = << >>
IdleReport ==
    /\ rp_records = << >> /\ rp_top_n = 0 /\ rp_summaries = << >> /\ rp_report = << >>
    /\ rp_metrics = << >> /\ rp_global_n = 0
IdleConfig == run_cfg = << >> /\ link_cfg = << >>
IdleSteps == lm = << >> /\ lm_calls = << >>
IdleRerank == rr_in = << >> /\ rr_out = << >>

-----------------------------------------------------------------------------
(* The per-sample linking steps                                            *)

\* by_label in sorted label order, each label's mentions in extraction order
by_label_order(ms) ==
    LET labels == SortedStrs({ms[i].label : i \in 1..Len(ms)})
    IN Concat([k \in 1..Len(labels) |-> Filter(ms, LAMBDA m : m.label = labels[k])])

store_of(lbl) == Stores[label_to_ont(lbl)]

Init ==
    /\ raw_fields \in RawFieldChoices(MaxWords)
    /\ cfg \in LinkConfigs
    /\ mentions = << >> /\ todo = << >> /\ linked = << >> /\ grouped = << >>
    /\ pc = "start"
    /\ IdleStatus /\ IdleExtract /\ IdleIndex /\ IdleWorkers /\ IdlePipeline /\ IdleRetrieve /\ IdleReport /\ IdleConfig /\ IdleSteps /\ IdleRerank

\* extractor.extract(raw_fields_str), then the grouping by label
Extract ==
    /\ pc = "start"
    /\ mentions' = RegexExtract(raw_fields)
    /\ todo' = by_label_order(mentions')
    /\ pc' = "extracted"
    /\ UNCHANGED <<raw_fields, cfg, linked, grouped, statusVars, extractVars, indexVars, workerVars, pipelineVars, retrieveVars, reportVars, configVars, stepVars, rerankVars>>

\* link_mentions on the next n mentions of one label (the pipeline hands it a
\* label's mentions at once), its result appended to linked_entities_all
LinkMentions ==
    /\ pc = "extracted" /\ todo # << >>
    /\ \E n \in 1..Len(todo) :
         LET batch == SubSeq(todo, 1, n)
             store == store_of(todo[1].label)
         IN /\ \A i \in 1..n : batch[i].label = todo[1].label
            /\ IF link_raises(raw_fields, batch, store, cfg)
               THEN pc' = "error" /\ UNCHANGED <<linked, todo>>
               ELSE /\ linked' = linked \o link_mentions(raw_fields, batch, store, cfg)
                    /\ todo' = SubSeq(todo, n + 1, Len(todo))
                    /\ pc' = pc
    /\ UNCHANGED <<raw_fields, cfg, mentions, grouped, statusVars, extractVars, indexVars, workerVars, pipelineVars, retrieveVars, reportVars, configVars, stepVars, rerankVars>>

\* dedup_entities called on the accumulated entities
DedupEntities ==
    /\ pc = "extracted" /\ linked # << >>
    /\ linked' = dedup_entities(linked)
    /\ UNCHANGED <<raw_fields, cfg, mentions, todo, grouped, pc, statusVars, extractVars, indexVars, workerVars, pipelineVars, retrieveVars, reportVars, configVars, stepVars, rerankVars>>

\* group_entities_by_label(linked_entities_all)
Group ==
    /\ pc = "extracted" /\ todo = << >>
    /\ grouped' = group_entities_by_label(linked)
    /\ pc' = "grouped"
    /\ UNCHANGED <<raw_fields, cfg, mentions, todo, linked, statusVars, extractVars, indexVars, workerVars, pipelineVars, retrieveVars, reportVars, configVars, stepVars, rerankVars>>

Next == Extract \/ LinkMentions \/ DedupEntities \/ Group

Spec == Init /\ [][Next]_vars

-----------------------------------------------------------------------------
(* Properties of the linking steps                                         *)

\* the entities of the exported mapping, label by label
grouped_entities == Concat([k \in 1..Len(grouped) |-> grouped[k].entities])

\* offsets.field_key == source_field and provenances[0] == offsets
primary_first(e) ==
    /\ e.offsets.field_key = e.source_field
    /\ e.provenances # << >>
    /\ e.provenances[1] = e.offsets

\* C1: every LinkedEntity that exists after link_mentions, dedup_entities and
\* group_entities_by_label, merged ones included, has offsets.field_key equal to
\* source_field and its own offsets as provenances[0].
C1_PrimaryOffsetsFirst ==
    /\ \A i \in 1..Len(linked) : primary_first(linked[i])
    /\ \A i \in 1..Len(grouped_entities) : primary_first(grouped_entities[i])

\* the mention an entity was built from
mention_of(e) ==
    CHOOSE m \in Range(mentions) :
        m.label = e.label /\ m.source_field = e.source_field /\ offsets(m) = e.offsets

\* C3: an entity link_mentions returns is REJECTED if and only if include_negation
\* is on and the negation detector fires for its mention; assign_status returns
\* REJECTED for no input, at the thresholds or away from them.
C3_RejectedIffNegated ==
    /\ \A i \in 1..Len(linked) :
          (linked[i].status = "REJECTED") <=>
              (cfg.include_negation
                 /\ is_negated(raw_fields, mention_of(linked[i]), cfg.window_chars))
    /\ \A best \in {0, cfg.tau - 1, cfg.tau, 100} :
          \A margin \in {0, cfg.delta - 1, cfg.delta, 100} :
              assign_status(best, margin, cfg.tau, cfg.delta) # "REJECTED"

\* a negated mention was linked with negation on, and another one was not negated
C3_Witness ==
    /\ pc = "extracted" /\ cfg.include_negation
    /\ \E i \in 1..Len(linked) : linked[i].status = "REJECTED"
    /\ \E i \in 1..Len(linked) : linked[i].status # "REJECTED"

\* C4: an entity link_mentions returns carries a linked_id if and only if it is
\* RESOLVED, the id is the best candidate's, and a RESOLVED entity without a
\* linked_id does not pass the validation.
C4_LinkedIdIffResolved ==
    \A i \in 1..Len(linked) :
        /\ (linked[i].linked_id # None) <=> (linked[i].status = "RESOLVED")
        /\ linked[i].status = "RESOLVED" =>
              /\ linked[i].top_candidates # << >>
              /\ linked[i].linked_id = Some(linked[i].top_candidates[1].candidate_id)
        /\ ~ValidEntity([linked[i] EXCEPT !.status = "RESOLVED", !.linked_id = None])

\* link_mentions returned a RESOLVED entity and an AMBIGUOUS one with candidates
C4_Witness ==
    /\ pc = "extracted"
    /\ \E i \in 1..Len(linked) : linked[i].status = "RESOLVED"
    /\ \E i \in 1..Len(linked) :
          linked[i].status = "AMBIGUOUS" /\ linked[i].top_candidates # << >>

\* the RESOLVED entities of es with e's (label, linked_id), in order
resolved_like(es, e) ==
    Filter(es, LAMBDA x : x.status = "RESOLVED" /\ x.label = e.label
                            /\ x.linked_id = e.linked_id)

\* the provenance lists of es, one after the other
all_provenances(es) == Concat([i \in 1..Len(es) |-> es[i].provenances])

\* C5: dedup_entities turns the RESOLVED entities that share a (label,
\* linked_id) into exactly one entity, and its provenance list is the union of
\* theirs in order: the first entity's offsets first, no offset twice, none lost.
C5_ResolvedMergeUnion ==
    \A i \in 1..Len(linked) :
        linked[i].status = "RESOLVED" =>
            /\ Len(resolved_like(dedup_entities(linked), linked[i])) = 1
            /\ resolved_like(dedup_entities(linked), linked[i])[1].provenances
                  = Dedup(all_provenances(resolved_like(linked, linked[i])))

\* a RESOLVED entity that dedup_entities merged from two mentions
C5_Witness ==
    /\ pc = "extracted"
    /\ \E i \in 1..Len(linked) :
          linked[i].status = "RESOLVED" /\ Len(linked[i].provenances) >= 2

\* the index in es of the entity that should survive for key k: the highest
\* status rank, the earliest of them
survivor(es, k) ==
    CHOOSE i \in 1..Len(es) :
        /\ key(es[i]) = k
        /\ \A j \in 1..Len(es) :
              key(es[j]) = k =>
                  \/ STATUS_RANK(es[j].status) < STATUS_RANK(es[i].status)
                  \/ STATUS_RANK(es[j].status) = STATUS_RANK(es[i].status) /\ i <= j

keys_of(es) == [i \in 1..Len(es) |-> key(es[i])]

without_provenances(e) == [e EXCEPT !.provenances = << >>]

\* what dedup_entities(es) = out has to satisfy
survivors_kept(es, out) ==
    /\ keys_of(out) = Dedup(keys_of(es))
    /\ \A k \in 1..Len(out) :
          without_provenances(out[k])
              = without_provenances(es[survivor(es, key(out[k]))])

\* C6: of the entities that collide on a dedup key the one of the highest status
\* rank survives with its fields, the earliest of them when ranks tie, and the
\* output is ordered by the first occurrence of each key.
C6_SurvivorByRank == survivors_kept(linked, dedup_entities(linked))

\* a merged entity whose surviving fields are those of a later, stronger entity
C6_Witness ==
    /\ pc = "extracted"
    /\ \E i \in 1..Len(linked) :
          /\ Len(linked[i].provenances) >= 2
          /\ linked[i].provenances[1] # linked[i].offsets

-----------------------------------------------------------------------------
(* The status policy on its own: assign_status applied to scores around    *)
(* the thresholds                                                          *)

MaxScore == 3

\* best_score, margin, tau and delta; a cross-encoder score may be negative
StatusValues == -1..MaxScore

InitStatus ==
    /\ sp_in \in [best : StatusValues, margin : StatusValues,
                  tau : StatusValues, delta : StatusValues]
    /\ sp_out = ""
    /\ IdleLink /\ IdleExtract /\ IdleIndex /\ IdleWorkers /\ IdlePipeline /\ IdleRetrieve /\ IdleReport /\ IdleConfig /\ IdleSteps /\ IdleRerank

AssignStatus ==
    /\ sp_out = ""
    /\ sp_out' = assign_status(sp_in.best, sp_in.margin, sp_in.tau, sp_in.delta)
    /\ UNCHANGED <<sp_in, linkVars, extractVars, indexVars, workerVars, pipelineVars, retrieveVars, reportVars, configVars, stepVars, rerankVars>>

NextStatus == AssignStatus

SpecStatus == InitStatus /\ [][NextStatus]_vars

\* C2: assign_status returns RESOLVED exactly when best >= tau and margin >= delta,
\* AMBIGUOUS exactly when best >= tau and margin < delta, and UNRESOLVED in every
\* other case, the boundaries best = tau and margin = delta included.
C2_StatusTable ==
    sp_out # "" =>
        /\ sp_out \in {"RESOLVED", "AMBIGUOUS", "UNRESOLVED"}
        /\ (sp_out = "RESOLVED") <=> (sp_in.best >= sp_in.tau /\ sp_in.margin >= sp_in.delta)
        /\ (sp_out = "AMBIGUOUS") <=> (sp_in.best >= sp_in.tau /\ sp_in.margin < sp_in.delta)
        /\ (sp_out = "UNRESOLVED") <=> (sp_in.best < sp_in.tau)

\* assign_status has answered at both boundaries at once
C2_Witness ==
    /\ sp_out = "RESOLVED"
    /\ sp_in.best = sp_in.tau /\ sp_in.margin = sp_in.delta

-----------------------------------------------------------------------------
(* The extractors on their own.  The NER model is external: what            *)
(* predict_entities returns for a field is any list of entities, whatever  *)
(* their spans and scores.                                                 *)

\* int(e["start"]), int(e["end"]), str(e["label"]), float(e.get("score", 0.0));
\* parses is FALSE for an entity on which one of the conversions raises
Entity(start, end, label, score, parses) ==
    [start |-> start, end |-> end, label |-> label, score |-> score, parses |-> parses]

\* the span test of GLiNERExtractor.extract
span_dropped_without_length(e, text) ==
    e.start < 0 \/ e.end < 0 \/ e.end < e.start \/ e.start = e.end

span_dropped(e, text) ==
    e.start < 0 \/ e.end < 0 \/ e.end < e.start \/ e.end > Len(text) \/ e.start = e.end

\* the entities of a field that reach the Mention constructor
kept(e, text, thr) == e.parses /\ ~span_dropped(e, text) /\ ~(e.score < thr)

gliner_mention(field_key, text, e) ==
    Mention(e.label, Slice(text, e.start, e.end), field_key, e.start, e.end,
            Max(0, Min(100, e.score)))

kept_mentions(field_key, text, es) ==
    [k \in 1..Len(es) |-> gliner_mention(field_key, text, es[k])]

\* one iteration of the loop over raw_fields: a blank field is skipped
gliner_field(field_key, text, es, thr) ==
    IF strip(text) = << >> THEN << >>
    ELSE kept_mentions(field_key, text, Filter(es, LAMBDA e : kept(e, text, thr)))

\* GLiNERExtractor.extract before the final sort
gliner_out(raw, predicted, thr) ==
    Concat([f \in 1..Len(FieldOrder) |->
        gliner_field(FieldOrder[f], raw[FieldOrder[f]], predicted[FieldOrder[f]], thr)])

\* the Mention constructor raises
gliner_raises(raw, predicted, thr) ==
    \E m \in Range(gliner_out(raw, predicted, thr)) : ~ValidMention(m)

GLiNERExtract(raw, predicted, thr) == _sorted_mentions(gliner_out(raw, predicted, thr))

MaxTextLen == 2

ExtractChars == {"c", "D", " "}

Texts(n) == UNION {[1..k -> ExtractChars] : k \in 0..n}

\* raw fields whose texts hold at most n characters together
ExtractFieldChoices(n) ==
    {[summary |-> q[1], title |-> q[2]] :
        q \in {r \in Texts(n) \X Texts(n) : Len(r[1]) + Len(r[2]) <= n}}

\* ExtractorConfig.threshold: the default and a stricter one
Thresholds == {0, 60}

\* what the model may predict for a text: any span from one before the text to
\* one past its end, a score below 0 or above 1, an entity that does not parse,
\* an empty label
EntityChoices(text) ==
    {Entity(a, b, "disease", 50, TRUE) :
        a \in -1..(Len(text) + 1), b \in -1..(Len(text) + 1)}
    \cup {Entity(0, 1, "disease", -10, TRUE), Entity(0, 1, "disease", 150, TRUE),
          Entity(0, 1, "disease", 50, FALSE), Entity(0, 1, "", 50, TRUE)}

\* predict_entities is not called for a blank field
EntityLists(text) ==
    IF strip(text) = << >> THEN {<< >>}
    ELSE {<< >>} \cup {<<e>> : e \in EntityChoices(text)}

Predictions(raw) ==
    {[summary |-> q[1], title |-> q[2]] :
        q \in EntityLists(raw.summary) \X EntityLists(raw.title)}

InitExtract ==
    /\ raw_fields \in ExtractFieldChoices(MaxTextLen)
    /\ threshold \in Thresholds
    /\ ents = [summary |-> << >>, title |-> << >>]
    /\ mentions = << >> /\ pc = "start"
    /\ cfg = LinkConfig /\ todo = << >> /\ linked = << >> /\ grouped = << >>
    /\ IdleStatus /\ IdleIndex /\ IdleWorkers /\ IdlePipeline /\ IdleRetrieve /\ IdleReport /\ IdleConfig /\ IdleSteps /\ IdleRerank

\* RegexExtractor.extract
RegexExtractorExtract ==
    /\ pc = "start"
    /\ mentions' = RegexExtract(raw_fields)
    /\ pc' = "regex"
    /\ UNCHANGED <<raw_fields, cfg, todo, linked, grouped, statusVars, extractVars,
                   indexVars, workerVars, pipelineVars, retrieveVars, reportVars, configVars, stepVars, rerankVars>>

\* GLiNERExtractor.extract
GLiNERExtractorExtract ==
    /\ pc = "start"
    /\ \E predicted \in Predictions(raw_fields) :
          /\ ents' = predicted
          /\ IF gliner_raises(raw_fields, predicted, threshold)
             THEN pc' = "error" /\ UNCHANGED mentions
             ELSE /\ mentions' = GLiNERExtract(raw_fields, predicted, threshold)
                  /\ pc' = "gliner"
    /\ UNCHANGED <<raw_fields, cfg, todo, linked, grouped, statusVars, threshold,
                   indexVars, workerVars, pipelineVars, retrieveVars, reportVars, configVars, stepVars, rerankVars>>

NextExtract == RegexExtractorExtract \/ GLiNERExtractorExtract

SpecExtract == InitExtract /\ [][NextExtract]_vars

\* raw_fields[source_field][start:end] == surface_form, 0 <= start < end <= len
span_holds(raw, m) ==
    /\ 0 <= m.start /\ m.start < m.end /\ m.end <= Len(raw[m.source_field])
    /\ SubSeq(raw[m.source_field], m.start + 1, m.end) = m.surface_form

\* the predicted entity a mention comes from
predicted_as(m, e) ==
    e.parses /\ e.start = m.start /\ e.end = m.end /\ e.label = m.label

\* C7: every Mention the regex or the GLiNER extractor emits is the slice
\* [start:end] of its field's raw text with 0 <= start < end <= len; a model span
\* with end < start, of zero length or past the end of the field is dropped: it
\* is not emitted and it does not make extract fail.
C7_SpanMatchesText ==
    /\ pc \in {"regex", "gliner"} =>
          \A i \in 1..Len(mentions) : span_holds(raw_fields, mentions[i])
    /\ pc = "gliner" =>
          \A i \in 1..Len(mentions) :
              \E e \in Range(ents[mentions[i].source_field]) : predicted_as(mentions[i], e)
    /\ pc = "error" =>
          \E f \in DOMAIN ents : \E e \in Range(ents[f]) :
              ~span_dropped(e, raw_fields[f]) /\ e.label = ""

\* GLiNER emitted a mention and dropped a span that ends past its field
C7_Witness ==
    /\ pc = "gliner" /\ mentions # << >>
    /\ \E f \in DOMAIN ents : \E e \in Range(ents[f]) :
          e.parses /\ e.start >= 0 /\ e.start < e.end /\ e.end > Len(raw_fields[f])

-----------------------------------------------------------------------------
(* The vector-index cache of OntologyBundle.  A file is known by what was  *)
(* written into it: the build that wrote it, and the version_hash and the  *)
(* embedding model id its content was computed from.  A file written twice *)
(* has the later build's content and modification time.                    *)

MaxBuilds == 2

\* contents of the ontology file (their sha256)
Hashes == {"h1", "h2"}

\* OntologyBundle instances over the one cache directory
Instances == {"b1", "b2"}

\* embedding model ids: "a/b" and "a-b" normalize to one directory name
ModelIds == { <<"a", "/", "b">>, <<"a", "-", "b">> }

\* str.replace(" ", "_")
replace_spaces(s) == [i \in 1..Len(s) |-> IF s[i] = " " THEN "_" ELSE s[i]]

\* normalize_text(embedding_model_id).replace(" ", "_") or "model"
safe_model(embedding_model_id) ==
    IF normalize_text(embedding_model_id) = << >> THEN <<"m", "o", "d", "e", "l">>
    ELSE replace_spaces(normalize_text(embedding_model_id))

\* the directory below cache_dir/vector_indexes/<ontology_name>
_index_dir(version_hash, embedding_model_id) ==
    <<version_hash, safe_model(embedding_model_id)>>

IndexDirs == {_index_dir(h, id) : h \in Hashes, id \in ModelIds}

\* embeddings.npy, concept_ids.json, faiss.index, meta.json: none exists
NoFiles == [embeddings |-> None, concept_ids |-> None, index |-> None, meta |-> None]

\* what a build leaves in a file
Written(build, version_hash, model_id) ==
    Some([build |-> build, hash |-> version_hash, model |-> model_id])

\* path.exists()
exists_misnamed(files, name) == name # "index" /\ files[name] # None

exists(files, name) == files[name] # None

\* the reuse test of get_or_build_vector_index
reusable(files, force_rebuild, version_hash, model_id) ==
    /\ ~force_rebuild
    /\ exists(files, "meta") /\ exists(files, "index")
    /\ exists(files, "concept_ids") /\ exists(files, "embeddings")
    /\ files.meta[1].hash = version_hash
    /\ files.meta[1].model = model_id

\* the handle a call returns, with what the call saw when it tested for reuse
\* (seen), what it left (after), and who had last returned from the directory (pre)
VectorIndexHandle(reused, f, after) ==
    [reused |-> reused, inst |-> f.inst, hash |-> f.hash, model |-> f.model,
     force |-> f.force, dir |-> f.dir, build |-> f.build, seen |-> f.seen,
     pre |-> f.pre, after |-> after]

\* the activation of a call by instance inst
Frame(inst, version_hash, model_id, force_rebuild, build, step) ==
    [inst |-> inst, hash |-> version_hash, model |-> model_id, force |-> force_rebuild,
     dir |-> _index_dir(version_hash, model_id), build |-> build, pc |-> step,
     seen |-> disk[_index_dir(version_hash, model_id)],
     pre |-> lastDone[_index_dir(version_hash, model_id)]]

InitIndex ==
    /\ oboFile = "h1"
    /\ bundles = [b \in Instances |-> None]
    /\ disk = [d \in IndexDirs |-> NoFiles]
    /\ call = None /\ ret = None /\ builds = 0
    /\ lastDone = [d \in IndexDirs |-> None]
    /\ IdleLink /\ IdleStatus /\ IdleExtract /\ IdleWorkers /\ IdlePipeline /\ IdleRetrieve /\ IdleReport /\ IdleConfig /\ IdleSteps /\ IdleRerank

\* the ontology file is replaced by another version
EditOntology ==
    /\ call = None
    /\ oboFile' \in Hashes \ {oboFile}
    /\ UNCHANGED <<bundles, disk, call, ret, builds, lastDone,
                   linkVars, statusVars, extractVars, workerVars, pipelineVars, retrieveVars, reportVars, configVars, stepVars, rerankVars>>

\* OntologyBundle.load_from_obo_files: the store takes the file's hash
LoadFromOboFiles(b) ==
    /\ call = None
    /\ bundles' = [bundles EXCEPT ![b] = Some(oboFile)]
    /\ UNCHANGED <<oboFile, disk, call, ret, builds, lastDone,
                   linkVars, statusVars, extractVars, workerVars, pipelineVars, retrieveVars, reportVars, configVars, stepVars, rerankVars>>

\* the call returns the handle h
returns(h) ==
    /\ ret' = Some(h)
    /\ lastDone' = [lastDone EXCEPT ![h.dir] = Some([model |-> h.model, inst |-> h.inst])]
    /\ call' = None

\* get_or_build_vector_index up to the reuse test: it returns the index on disk,
\* or goes on to build
GetOrBuildVectorIndex(b, model_id, force_rebuild) ==
    /\ call = None /\ bundles[b] # None
    /\ IF reusable(disk[_index_dir(bundles[b][1], model_id)], force_rebuild,
                   bundles[b][1], model_id)
       THEN /\ returns(VectorIndexHandle(TRUE,
                          Frame(b, bundles[b][1], model_id, force_rebuild, 0, "reuse"),
                          disk[_index_dir(bundles[b][1], model_id)]))
            /\ UNCHANGED <<builds, disk>>
       ELSE /\ builds < MaxBuilds
            /\ builds' = builds + 1
            /\ call' = Some(Frame(b, bundles[b][1], model_id, force_rebuild,
                                  builds + 1, "embeddings"))
            /\ ret' = None
            /\ UNCHANGED <<disk, lastDone>>
    /\ UNCHANGED <<oboFile, bundles, linkVars, statusVars, extractVars, workerVars, pipelineVars, retrieveVars, reportVars, configVars, stepVars, rerankVars>>

\* the directory of frame f after the file name is written
write(f, name) ==
    [disk EXCEPT ![f.dir][name] = Written(f.build, f.hash, f.model)]

\* a write by another model id ends the directory's standing
disowned(f) ==
    IF lastDone[f.dir] # None /\ lastDone[f.dir][1].model # f.model
    THEN [lastDone EXCEPT ![f.dir] = None]
    ELSE lastDone

\* the build writes the file name in place and goes on to the step next
write_step(name, next) ==
    /\ disk' = write(call[1], name)
    /\ lastDone' = disowned(call[1])
    /\ call' = Some([call[1] EXCEPT !.pc = next])

\* np.save(embeddings_path, vecs)
SaveEmbeddings ==
    /\ call # None /\ call[1].pc = "embeddings"
    /\ write_step("embeddings", "concept_ids")
    /\ UNCHANGED <<oboFile, bundles, ret, builds, linkVars, statusVars, extractVars, workerVars, pipelineVars, retrieveVars, reportVars, configVars, stepVars, rerankVars>>

\* concept_ids_path.write_text(...)
WriteConceptIds ==
    /\ call # None /\ call[1].pc = "concept_ids"
    /\ write_step("concept_ids", "index")
    /\ UNCHANGED <<oboFile, bundles, ret, builds, linkVars, statusVars, extractVars, workerVars, pipelineVars, retrieveVars, reportVars, configVars, stepVars, rerankVars>>

\* faiss.write_index(index, str(index_path))
WriteIndex ==
    /\ call # None /\ call[1].pc = "index"
    /\ write_step("index", "meta")
    /\ UNCHANGED <<oboFile, bundles, ret, builds, linkVars, statusVars, extractVars, workerVars, pipelineVars, retrieveVars, reportVars, configVars, stepVars, rerankVars>>

\* meta_path.write_text(...), then the handle is returned
WriteMeta ==
    /\ call # None /\ call[1].pc = "meta"
    /\ disk' = write(call[1], "meta")
    /\ returns(VectorIndexHandle(FALSE, call[1], write(call[1], "meta")[call[1].dir]))
    /\ UNCHANGED <<oboFile, bundles, builds, linkVars, statusVars, extractVars, workerVars, pipelineVars, retrieveVars, reportVars, configVars, stepVars, rerankVars>>

\* the process is killed during a build
Interrupt ==
    /\ call # None
    /\ call' = None
    /\ UNCHANGED <<oboFile, bundles, disk, ret, builds, lastDone,
                   linkVars, statusVars, extractVars, workerVars, pipelineVars, retrieveVars, reportVars, configVars, stepVars, rerankVars>>

NextIndex ==
    \/ EditOntology
    \/ \E b \in Instances : LoadFromOboFiles(b)
    \/ \E b \in Instances, model_id \in ModelIds, force_rebuild \in BOOLEAN :
          GetOrBuildVectorIndex(b, model_id, force_rebuild)
    \/ SaveEmbeddings
    \/ WriteConceptIds
    \/ WriteIndex
    \/ WriteMeta
    \/ Interrupt

SpecIndex == InitIndex /\ [][NextIndex]_vars

\* every file of the set fs exists and comes from the build n
all_from_build(fs, n) ==
    \A name \in DOMAIN fs : fs[name] # None /\ fs[name][1].build = n

\* C8: once a call for (ontology version, model id) has returned from the index
\* directory and no other model id has written to it since, a call without
\* force_rebuild for the same version and model id returns reused = true and
\* leaves every index file as it found it, whichever OntologyBundle instance
\* makes the call.
C8_ReuseAfterBuild ==
    (/\ ret # None /\ ~ret[1].force
     /\ ret[1].pre # None /\ ret[1].pre[1].model = ret[1].model)
        => /\ ret[1].reused
           /\ ret[1].after = ret[1].seen
           /\ \A name \in DOMAIN ret[1].after : ret[1].after[name] # None

\* an instance has reused, without writing, the index another instance built
C8_Witness ==
    /\ ret # None /\ ret[1].reused /\ ~ret[1].force
    /\ ret[1].pre # None /\ ret[1].pre[1].model = ret[1].model
    /\ ret[1].pre[1].inst # ret[1].inst
    /\ ret[1].after = disk[ret[1].dir]

\* C9: a call returns reused = true only when the four files exist and meta.json
\* records exactly the store's version_hash and the embedder's model id, and it
\* rebuilds in every other case; a model id never reuses index files written
\* for another model id, even one that normalizes to the same directory name.
C9_ReuseOnlyOnExactMatch ==
    ret # None =>
        /\ ret[1].reused <=>
              /\ ~ret[1].force
              /\ \A name \in DOMAIN ret[1].seen : ret[1].seen[name] # None
              /\ ret[1].seen.meta[1].hash = ret[1].hash
              /\ ret[1].seen.meta[1].model = ret[1].model
        /\ ~ret[1].reused => all_from_build(ret[1].after, ret[1].build)
        /\ ret[1].reused =>
              \A name \in DOMAIN ret[1].seen : ret[1].seen[name][1].model = ret[1].model

\* C10: the index directory never holds four files that pass the reuse test and
\* were not all written by one build, also while a build is under way and after
\* a build was interrupted between two of its writes.
C10_AtomicBuild ==
    \A d \in IndexDirs :
        (\E h \in Hashes, id \in ModelIds : reusable(disk[d], FALSE, h, id))
            => \E n \in 1..builds : all_from_build(disk[d], n)

-----------------------------------------------------------------------------
(* Concurrent workers over one cache directory.  Each worker (a process    *)
(* with its OntologyBundle) runs get_or_build_vector_index, or             *)
(* vector_search, which goes on to read faiss.index and concept_ids.json   *)
(* through the handle.  The workers' steps interleave freely: the code     *)
(* takes no lock and writes in place.                                      *)

\* the steps of a build between the reuse test and the return
BuildSteps == {"embeddings", "concept_ids", "index", "meta"}

\* the steps at which a build has written a file and has files left to write
MidBuild == {"concept_ids", "index", "meta"}

\* worker w is at step s
at(w, s) == workers[w] # None /\ workers[w][1].pc = s

\* the build n has been started by a worker that has not returned from it
in_progress(n) ==
    \E w \in Instances :
        workers[w] # None /\ workers[w][1].build = n /\ workers[w][1].pc \in BuildSteps

InitWorkers ==
    /\ oboFile = "h1"
    /\ bundles = [b \in Instances |-> Some("h1")]
    /\ disk = [d \in IndexDirs |-> NoFiles]
    /\ call = None /\ ret = None /\ builds = 0
    /\ lastDone = [d \in IndexDirs |-> None]
    /\ workers = [w \in Instances |-> None]
    /\ opened = [w \in Instances |-> None]
    /\ IdleLink /\ IdleStatus /\ IdleExtract /\ IdlePipeline /\ IdleRetrieve /\ IdleReport /\ IdleConfig /\ IdleSteps /\ IdleRerank

\* worker w enters get_or_build_vector_index (force_rebuild = False, as from
\* vector_search): it holds a handle on the index on disk, or goes on to build
WorkerCall(w, model_id) ==
    /\ workers[w] = None
    /\ IF reusable(disk[_index_dir(bundles[w][1], model_id)], FALSE, bundles[w][1], model_id)
       THEN /\ workers' = [workers EXCEPT ![w] =
                 Some(Frame(w, bundles[w][1], model_id, FALSE, 0, "handle"))]
            /\ UNCHANGED builds
       ELSE /\ builds < MaxBuilds
            /\ builds' = builds + 1
            /\ workers' = [workers EXCEPT ![w] =
                 Some(Frame(w, bundles[w][1], model_id, FALSE, builds + 1, "embeddings"))]
    /\ UNCHANGED <<oboFile, bundles, disk, call, ret, lastDone, opened,
                   linkVars, statusVars, extractVars, pipelineVars, retrieveVars, reportVars, configVars, stepVars, rerankVars>>

\* worker w writes the file name in place and goes on to the step next
worker_write(w, name, next) ==
    /\ disk' = write(workers[w][1], name)
    /\ workers' = [workers EXCEPT ![w] = Some([workers[w][1] EXCEPT !.pc = next])]

\* np.save(embeddings_path, vecs)
WorkerSaveEmbeddings(w) ==
    /\ at(w, "embeddings")
    /\ worker_write(w, "embeddings", "concept_ids")
    /\ UNCHANGED <<oboFile, bundles, call, ret, builds, lastDone, opened,
                   linkVars, statusVars, extractVars, pipelineVars, retrieveVars, reportVars, configVars, stepVars, rerankVars>>

\* concept_ids_path.write_text(...)
WorkerWriteConceptIds(w) ==
    /\ at(w, "concept_ids")
    /\ worker_write(w, "concept_ids", "index")
    /\ UNCHANGED <<oboFile, bundles, call, ret, builds, lastDone, opened,
                   linkVars, statusVars, extractVars, pipelineVars, retrieveVars, reportVars, configVars, stepVars, rerankVars>>

\* faiss.write_index(index, str(index_path))
WorkerWriteIndex(w) ==
    /\ at(w, "index")
    /\ worker_write(w, "index", "meta")
    /\ UNCHANGED <<oboFile, bundles, call, ret, builds, lastDone, opened,
                   linkVars, statusVars, extractVars, pipelineVars, retrieveVars, reportVars, configVars, stepVars, rerankVars>>

\* meta_path.write_text(...); the worker holds the handle
WorkerWriteMeta(w) ==
    /\ at(w, "meta")
    /\ worker_write(w, "meta", "handle")
    /\ UNCHANGED <<oboFile, bundles, call, ret, builds, lastDone, opened,
                   linkVars, statusVars, extractVars, pipelineVars, retrieveVars, reportVars, configVars, stepVars, rerankVars>>

\* a plain get_or_build_vector_index call returns the handle to its caller
WorkerReturn(w) ==
    /\ at(w, "handle")
    /\ workers' = [workers EXCEPT ![w] = None]
    /\ UNCHANGED <<oboFile, bundles, disk, call, ret, builds, lastDone, opened,
                   linkVars, statusVars, extractVars, pipelineVars, retrieveVars, reportVars, configVars, stepVars, rerankVars>>

\* what a reader finds when it opens the file name of the directory of frame f
open_file(f, name) ==
    [name |-> name, reader |-> f.build, found |-> disk[f.dir][name],
     unfinished |-> disk[f.dir][name] # None /\ in_progress(disk[f.dir][name][1].build)]

\* vector_search: faiss.read_index(str(handle.index_path))
ReadIndex(w) ==
    /\ at(w, "handle")
    /\ opened' = [opened EXCEPT ![w] = Some(open_file(workers[w][1], "index"))]
    /\ workers' = [workers EXCEPT ![w] = Some([workers[w][1] EXCEPT !.pc = "read_ids"])]
    /\ UNCHANGED <<oboFile, bundles, disk, call, ret, builds, lastDone,
                   linkVars, statusVars, extractVars, pipelineVars, retrieveVars, reportVars, configVars, stepVars, rerankVars>>

\* vector_search: json.loads(handle.concept_ids_path.read_text("utf-8")), then
\* the search itself, which touches no file
ReadConceptIds(w) ==
    /\ at(w, "read_ids")
    /\ opened' = [opened EXCEPT ![w] = Some(open_file(workers[w][1], "concept_ids"))]
    /\ workers' = [workers EXCEPT ![w] = None]
    /\ UNCHANGED <<oboFile, bundles, disk, call, ret, builds, lastDone,
                   linkVars, statusVars, extractVars, pipelineVars, retrieveVars, reportVars, configVars, stepVars, rerankVars>>

NextWorkers ==
    \/ \E w \in Instances, model_id \in ModelIds : WorkerCall(w, model_id)
    \/ \E w \in Instances : WorkerSaveEmbeddings(w)
    \/ \E w \in Instances : WorkerWriteConceptIds(w)
    \/ \E w \in Instances : WorkerWriteIndex(w)
    \/ \E w \in Instances : WorkerWriteMeta(w)
    \/ \E w \in Instances : WorkerReturn(w)
    \/ \E w \in Instances : ReadIndex(w)
    \/ \E w \in Instances : ReadConceptIds(w)

SpecWorkers == InitWorkers /\ [][NextWorkers]_vars

\* two workers are in the middle of writing the same directory for the same
\* (ontology version, model id)
writes_overlap(v, w) ==
    /\ v # w /\ workers[v] # None /\ workers[w] # None
    /\ workers[v][1].pc \in MidBuild /\ workers[w][1].pc \in MidBuild
    /\ workers[v][1].hash = workers[w][1].hash
    /\ workers[v][1].model = workers[w][1].model

\* C11: the index directory of one (ontology, model id) has at most one writer
\* at a time: the writes of two workers that call concurrently for the same pair
\* never overlap, and no reader opens a file written by a build still in progress.
C11_WriterExclusive ==
    /\ \A v, w \in Instances : ~writes_overlap(v, w)
    /\ \A w \in Instances : opened[w] # None => ~opened[w][1].unfinished

-----------------------------------------------------------------------------
(* The driver, run_pipeline.  A sample's raw fields are known here by what *)
(* the per-sample steps make of them (the steps themselves are those of    *)
(* Spec): whether linking raises, whether a field of the TextView priority *)
(* list holds text, and the mapping group_entities_by_label returns.  A    *)
(* file is known by the value that stable_dumps serializes into it.        *)

MaxStudies == 2
MaxSamples == 2
MaxRuns == 2

\* study ids
GseIds == { <<"e">>, <<"f">> }

\* run roots (layout.run_root)
RunRoots == {"runA", "runB"}

\* the fields of a LinkedEntity that the reports read
ReportEntity(label, status, source_field, surface_form) ==
    [label |-> label, status |-> status, source_field |-> source_field,
     surface_form |-> surface_form]

\* a sample payload of the raw cache
Payload(gsm_id, is_dict, priority_text, linking, entities) ==
    [gsm_id |-> gsm_id, is_dict |-> is_dict, priority_text |-> priority_text,
     linking |-> linking, entities |-> entities]

\* the payloads of the model: three that give a record (one of them with a
\* padded id), one with a blank id, one whose raw_fields is no dict, one whose
\* priority fields hold text, one on which linking raises
SamplePayloads ==
    { Payload(<<"a">>, TRUE, FALSE, "ok", << >>),
      Payload(<<"b">>, TRUE, FALSE, "ok",
              << [label |-> "disease",
                  entities |-> <<ReportEntity("disease", "AMBIGUOUS", "summary", <<"c">>)>>] >>),
      Payload(<<" ", "b">>, TRUE, FALSE, "ok",
              << [label |-> "tissue",
                  entities |-> <<ReportEntity("tissue", "RESOLVED", "title", <<"d">>)>>] >>),
      Payload(<<" ">>, TRUE, FALSE, "ok", << >>),
      Payload(<<"a">>, FALSE, FALSE, "ok", << >>),
      Payload(<<"c">>, TRUE, TRUE, "ok", << >>),
      Payload(<<"c">>, TRUE, FALSE, "raise", << >>) }

\* the raw cache of a study: at most n payloads, in file order
PayloadLists(n) == UNION {[1..k -> SamplePayloads] : k \in 0..n}

\* lists of at most n study ids
GseIdLists(n) == UNION {[1..k -> GseIds] : k \in 0..n}

\* the raw caches of the model: any cache for one study, and for the other one
\* sample, or two samples stored in descending id order
RawCaches ==
    {[g \in GseIds |-> IF g = <<"e">> THEN c ELSE d] :
        c \in PayloadLists(MaxSamples),
        d \in { <<Payload(<<"a">>, TRUE, FALSE, "ok", << >>)>>,
                <<Payload(<<"b">>, TRUE, FALSE, "ok", << >>),
                  Payload(<<"a">>, TRUE, FALSE, "ok", << >>)>> }}

\* the three output files of a run root, none written
NoOutputs == [gsm_jsonl |-> None, gse_summary |-> None, corpus_report |-> None]

InitPipeline ==
    /\ gse_ids \in GseIdLists(MaxStudies)
    /\ src_raw \in RawCaches
    /\ env \in [from_config : BOOLEAN]
    /\ layout = ""
    /\ raw_dir = [r \in RunRoots |-> [g \in GseIds |-> None]]
    /\ rpc = "idle"
    /\ gse_queue = << >> /\ gse_id = << >> /\ gsms_sorted = << >>
    /\ gse_records = << >> /\ all_gsm_records = << >> /\ gse_to_summary = << >>
    /\ out_files = [r \in RunRoots |-> NoOutputs]
    /\ at_start = NoOutputs /\ prev = None /\ runs = 0
    /\ IdleLink /\ IdleStatus /\ IdleExtract /\ IdleIndex /\ IdleWorkers /\ IdleRetrieve /\ IdleReport /\ IdleConfig /\ IdleSteps /\ IdleRerank

\* run_pipeline is called with the layout root (the first run's is runA): the
\* directories are made
RunPipeline(root) ==
    /\ rpc \in {"idle", "done", "error"} /\ runs < MaxRuns
    /\ runs = 0 => root = "runA"
    /\ runs' = runs + 1
    /\ layout' = root
    /\ at_start' = out_files[root]
    /\ prev' = IF rpc = "done" THEN Some([root |-> layout, out |-> out_files[layout]])
               ELSE prev
    /\ gse_queue' = << >> /\ gse_id' = << >> /\ gsms_sorted' = << >>
    /\ gse_records' = << >> /\ all_gsm_records' = << >> /\ gse_to_summary' = << >>
    /\ rpc' = "build"
    /\ UNCHANGED <<gse_ids, src_raw, env, raw_dir, out_files,
                   linkVars, statusVars, extractVars, indexVars, workerVars, retrieveVars, reportVars, configVars, stepVars, rerankVars>>

\* _build_extractor, _build_retriever, _build_reranker, _build_link_cfg, then
\* gse_ids_sorted.  _build_retriever calls CandidateRetriever.from_config when
\* the class has it; otherwise both constructor calls it tries raise TypeError
BuildComponents ==
    /\ rpc = "build"
    /\ IF env.from_config
       THEN rpc' = "studies" /\ gse_queue' = SortedTexts(Range(gse_ids))
       ELSE rpc' = "error" /\ UNCHANGED gse_queue
    /\ UNCHANGED <<gse_ids, src_raw, env, layout, raw_dir, gse_id, gsms_sorted,
                   gse_records, all_gsm_records, gse_to_summary, out_files, at_start,
                   prev, runs, linkVars, statusVars, extractVars, indexVars, workerVars, retrieveVars, reportVars, configVars, stepVars, rerankVars>>

\* _copy_gse_raw_cache: the study's cache is copied unless the source is missing
\* or the run already has one
copied(g) ==
    IF src_raw[g] # << >> /\ raw_dir[layout][g] = None
    THEN [raw_dir EXCEPT ![layout][g] = Some(src_raw[g])]
    ELSE raw_dir

\* _load_gsms_from_cache on a raw directory rd
gsms_of(rd, g) == IF rd[layout][g] = None THEN << >> ELSE rd[layout][g][1]

\* order of the key str(x.get("gsm_id", ""))
GsmLt(x, y) == TextLt(x.gsm_id, y.gsm_id)

\* the head of the study loop: copy and load the raw cache, sort the samples
LoadStudy ==
    /\ rpc = "studies" /\ gse_queue # << >>
    /\ raw_dir' = copied(Head(gse_queue))
    /\ IF gsms_of(raw_dir', Head(gse_queue)) = << >>
       THEN rpc' = "error" /\ UNCHANGED <<gse_queue, gse_id, gsms_sorted, gse_records>>
       ELSE /\ gse_id' = Head(gse_queue)
            /\ gse_queue' = Tail(gse_queue)
            /\ gsms_sorted' = SortedBy(gsms_of(raw_dir', Head(gse_queue)), GsmLt)
            /\ gse_records' = << >>
            /\ rpc' = "samples"
    /\ UNCHANGED <<gse_ids, src_raw, env, layout, all_gsm_records, gse_to_summary,
                   out_files, at_start, prev, runs,
                   linkVars, statusVars, extractVars, indexVars, workerVars, retrieveVars, reportVars, configVars, stepVars, rerankVars>>

\* the sample is skipped: blank id, or raw_fields is no dict
skipped(p) == strip(p.gsm_id) = << >> \/ ~p.is_dict

\* a step of the sample raises: linking, or GSMCleanedRecord.model_validate,
\* which is handed the TextView's field keys as textview_fields (a list of
\* SelectedField) and rejects any that is there
sample_raises(p) == p.linking = "raise" \/ p.priority_text

\* the record of the sample: gsm_id is the stripped id
_make_gsm_record(g, p) ==
    [gse_id |-> g, gsm_id |-> strip(p.gsm_id), entities |-> p.entities]

\* the body of the sample loop on the next sample
ProcessSample ==
    /\ rpc = "samples" /\ gsms_sorted # << >>
    /\ IF skipped(Head(gsms_sorted))
       THEN gsms_sorted' = Tail(gsms_sorted) /\ UNCHANGED <<rpc, gse_records>>
       ELSE IF sample_raises(Head(gsms_sorted))
       THEN rpc' = "error" /\ UNCHANGED <<gsms_sorted, gse_records>>
       ELSE /\ gse_records' = Append(gse_records, _make_gsm_record(gse_id, Head(gsms_sorted)))
            /\ gsms_sorted' = Tail(gsms_sorted)
            /\ UNCHANGED rpc
    /\ UNCHANGED <<gse_ids, src_raw, env, layout, raw_dir, gse_queue, gse_id,
                   all_gsm_records, gse_to_summary, out_files, at_start, prev, runs,
                   linkVars, statusVars, extractVars, indexVars, workerVars, retrieveVars, reportVars, configVars, stepVars, rerankVars>>

\* the end of the study loop's body: the per-GSE summary
SummarizeStudy ==
    /\ rpc = "samples" /\ gsms_sorted = << >>
    /\ gse_to_summary' = Append(gse_to_summary, compute_gse_summary(gse_id, gse_records, 20))
    /\ all_gsm_records' = all_gsm_records \o gse_records
    /\ rpc' = "studies"
    /\ UNCHANGED <<gse_ids, src_raw, env, layout, raw_dir, gse_queue, gse_id, gsms_sorted,
                   gse_records, out_files, at_start, prev, runs,
                   linkVars, statusVars, extractVars, indexVars, workerVars, retrieveVars, reportVars, configVars, stepVars, rerankVars>>

\* as written, with the file opened for appending
written_appending(name, content) ==
    [out_files EXCEPT ![layout][name] =
        IF out_files[layout][name] = None THEN Some(content)
        ELSE Some(<<out_files[layout][name][1], content>>)]

\* the output files of the run root after the file name is written
written(name, content) == [out_files EXCEPT ![layout][name] = Some(content)]

\* write_gsm_jsonl: path.open("w") and one line per record
WriteGsmJsonl ==
    /\ rpc = "studies" /\ gse_queue = << >>
    /\ out_files' = written("gsm_jsonl", all_gsm_records)
    /\ rpc' = "write_summary"
    /\ UNCHANGED <<gse_ids, src_raw, env, layout, raw_dir, gse_queue, gse_id, gsms_sorted,
                   gse_records, all_gsm_records, gse_to_summary, at_start, prev, runs,
                   linkVars, statusVars, extractVars, indexVars, workerVars, retrieveVars, reportVars, configVars, stepVars, rerankVars>>

\* gse_summary_obj
gse_summary_obj ==
    [run_id |-> layout, processed_gse_count |-> Len(gse_to_summary),
     processed_gsm_count |-> Len(all_gsm_records), by_gse |-> gse_to_summary]

\* _write_json(gse_summary_path, gse_summary_obj)
WriteGseSummary ==
    /\ rpc = "write_summary"
    /\ out_files' = written("gse_summary", gse_summary_obj)
    /\ rpc' = "write_report"
    /\ UNCHANGED <<gse_ids, src_raw, env, layout, raw_dir, gse_queue, gse_id, gsms_sorted,
                   gse_records, all_gsm_records, gse_to_summary, at_start, prev, runs,
                   linkVars, statusVars, extractVars, indexVars, workerVars, retrieveVars, reportVars, configVars, stepVars, rerankVars>>

\* _load_manifest_bits, which raises when manifest.json cannot be read, then
\* compute_corpus_report and _write_json(corpus_report_path, ...)
WriteCorpusReport ==
    /\ rpc = "write_report"
    /\ \E manifest_readable \in BOOLEAN :
       IF manifest_readable
       THEN /\ out_files' = written("corpus_report",
                   compute_corpus_report(layout, <<layout, "manifest.json">>,
                       SortedTexts(Range(gse_ids)), gse_to_summary, 50))
            /\ rpc' = "done"
       ELSE rpc' = "error" /\ UNCHANGED out_files
    /\ UNCHANGED <<gse_ids, src_raw, env, layout, raw_dir, gse_queue, gse_id, gsms_sorted,
                   gse_records, all_gsm_records, gse_to_summary, at_start, prev, runs,
                   linkVars, statusVars, extractVars, indexVars, workerVars, retrieveVars, reportVars, configVars, stepVars, rerankVars>>

NextPipeline ==
    \/ \E root \in RunRoots : RunPipeline(root)
    \/ BuildComponents
    \/ LoadStudy
    \/ ProcessSample
    \/ SummarizeStudy
    \/ WriteGsmJsonl
    \/ WriteGseSummary
    \/ WriteCorpusReport

SpecPipeline == InitPipeline /\ [][NextPipeline]_vars

-----------------------------------------------------------------------------
(* Properties of the driver                                                *)

\* record a comes no later than record b in (study id, sample id) order
RecordLe(a, b) ==
    \/ TextLt(a.gse_id, b.gse_id)
    \/ a.gse_id = b.gse_id /\ ~TextLt(b.gsm_id, a.gsm_id)

\* the records are in ascending (study id, sample id) order
ascending(records) ==
    \A i, j \in 1..Len(records) : i < j => RecordLe(records[i], records[j])

\* the number of samples of the study's raw cache that give a record
n_valid(g) == Cardinality({i \in 1..Len(src_raw[g]) : ~skipped(src_raw[g][i])})

\* the study g has exactly one record for each valid sample of its raw cache
processed_once(records, g) ==
    Cardinality({i \in 1..Len(records) : records[i].gse_id = g}) = n_valid(g)

complete(r) == \A name \in DOMAIN out_files[r] : out_files[r][name] # None

rerun_done == rpc = "done" /\ prev # None

runnable_inputs ==
    \A g \in Range(gse_ids) :
        /\ n_valid(g) >= 1
        /\ \A i \in 1..Len(src_raw[g]) : src_raw[g][i].linking = "ok"

\* C20: when every selected study has a raw cache with at least one valid
\* sample, run_pipeline builds its extractor, retriever, reranker and link
\* configuration from the run configuration and runs to completion without error.
C20_RunsToCompletion ==
    runnable_inputs => rpc # "error"

-----------------------------------------------------------------------------
(* group_entities_by_label on its own: the entities handed to it are any   *)
(* valid LinkedEntity values, in any order, with their candidates in any   *)
(* order.                                                                  *)

MaxEntities == 3

\* a LinkedEntity built as link_mentions builds it
ExportEntity(label, field, start, end, sf, status, linked_id, top) ==
    LinkedEntity([blank_payload(Mention(label, sf, field, start, end, 100), status) EXCEPT
                     !.linked_id = linked_id, !.top_candidates = top])

\* two candidates, in both orders, with distinct and with equal scores
CandidateLists ==
    { << >>,
      <<Candidate("TOY:1", <<"c">>, 90, "rerank", None),
        Candidate("TOY:2", <<"d">>, 80, "rerank", None)>>,
      <<Candidate("TOY:2", <<"d">>, 80, "rerank", None),
        Candidate("TOY:1", <<"c">>, 90, "rerank", None)>>,
      <<Candidate("TOY:2", <<"d">>, 90, "rerank", None),
        Candidate("TOY:1", <<"c">>, 90, "rerank", None)>> }

\* entities that differ in each component of the sort key
ExportEntities ==
    { ExportEntity("disease", "summary", 0, 1, <<"c">>, "RESOLVED", Some("TOY:1"),
                   CHOOSE t \in CandidateLists : Len(t) = 2 /\ t[1].score = 80),
      ExportEntity("disease", "title", 0, 1, <<"c">>, "RESOLVED", Some("TOY:1"),
                   CHOOSE t \in CandidateLists : Len(t) = 2 /\ t[2].score = 80),
      ExportEntity("disease", "summary", 0, 1, <<"C">>, "RESOLVED", Some("TOY:2"), << >>),
      ExportEntity("disease", "summary", 0, 1, <<"c">>, "AMBIGUOUS", None,
                   CHOOSE t \in CandidateLists : Len(t) = 2 /\ t[1].score = 90 /\ t[2].score = 90),
      ExportEntity("disease", "summary", 2, 3, <<"d">>, "UNRESOLVED", None, << >>),
      ExportEntity("disease", "summary", 2, 5, <<"d", " ", "c">>, "UNRESOLVED", None, << >>),
      ExportEntity("tissue", "summary", 0, 1, <<"d">>, "AMBIGUOUS", None, << >>),
      ExportEntity("tissue", "title", 0, 1, <<"c">>, "REJECTED", None, << >>) }

EntityListChoices(n) == UNION {[1..k -> ExportEntities] : k \in 0..n}

InitExport ==
    /\ raw_fields = [summary |-> << >>, title |-> << >>]
    /\ cfg = LinkConfig
    /\ mentions = << >> /\ todo = << >> /\ grouped = << >>
    /\ linked \in EntityListChoices(MaxEntities)
    /\ pc = "extracted"
    /\ IdleStatus /\ IdleExtract /\ IdleIndex /\ IdleWorkers /\ IdlePipeline /\ IdleRetrieve /\ IdleReport /\ IdleConfig /\ IdleSteps /\ IdleRerank

NextExport == Group

SpecExport == InitExport /\ [][NextExport]_vars

\* the label keys of the mapping are in ascending order
labels_ascending(items) ==
    \A k \in 1..(Len(items) - 1) : StrLt(items[k].label, items[k + 1].label)

\* the list is in the order of the exporter's key
entities_sorted(es) == \A i \in 1..(Len(es) - 1) : ~EntityLt(es[i + 1], es[i])

\* the candidates are in (descending score, candidate_id) order
candidates_sorted(cs) == \A i \in 1..(Len(cs) - 1) : ~CandLt(cs[i + 1], cs[i])

\* a and b are one entity: equal but for the order of their candidates
same_entity(a, b) ==
    /\ [a EXCEPT !.top_candidates = << >>] = [b EXCEPT !.top_candidates = << >>]
    /\ Len(a.top_candidates) = Len(b.top_candidates)
    /\ \A c \in Range(a.top_candidates) \cup Range(b.top_candidates) :
          Cardinality({i \in 1..Len(a.top_candidates) : a.top_candidates[i] = c})
            = Cardinality({i \in 1..Len(b.top_candidates) : b.top_candidates[i] = c})

\* the number of entities of es that are the entity e
occurrences(es, e) == Cardinality({i \in 1..Len(es) : same_entity(es[i], e)})

\* the entities of the mapping, label by label
mapping_entities(items) == Concat([k \in 1..Len(items) |-> items[k].entities])

\* C15: in the mapping group_entities_by_label returns, the label keys are in
\* ascending order, each label's list holds entities of that label sorted by
\* (descending status rank, linked_id or "", source_field, offsets.start,
\* offsets.end, surface_form), each entity's top_candidates is sorted by
\* (descending score, candidate_id), and the mapping holds exactly the input
\* entities, none lost and none duplicated.
C15_GroupedSorted ==
    pc = "grouped" =>
        /\ labels_ascending(grouped)
        /\ \A k \in 1..Len(grouped) :
              /\ entities_sorted(grouped[k].entities)
              /\ \A i \in 1..Len(grouped[k].entities) :
                    /\ grouped[k].entities[i].label = grouped[k].label
                    /\ candidates_sorted(grouped[k].entities[i].top_candidates)
        /\ Len(mapping_entities(grouped)) = Len(linked)
        /\ \A i \in 1..Len(linked) :
              occurrences(mapping_entities(grouped), linked[i]) = occurrences(linked, linked[i])

\* three entities of two labels were given out of order, one of them with its
\* candidates out of order
C15_Witness ==
    /\ pc = "grouped" /\ Len(linked) = 3 /\ Len(grouped) = 2
    /\ linked # mapping_entities(grouped)
    /\ \E i \in 1..Len(linked) : ~candidates_sorted(linked[i].top_candidates)
    /\ \E i, j \in 1..Len(linked) : i < j /\ EntityLt(linked[j], linked[i])

-----------------------------------------------------------------------------
(* CandidateRetriever.retrieve on its own, over an ontology in which terms *)
(* collide exactly and after normalization, with any answer of the vector  *)
(* search.                                                                 *)

MaxVec == 3

\* "c" is the label of TOY:1 and, normalized, of TOY:2; "d" is the label of
\* TOY:3 and, normalized, a synonym of TOY:1
RetrievalStore ==
    << Concept("TOY:1", <<"c">>, << <<"D">> >>, Some("def")),
       Concept("TOY:2", <<"C">>, << >>, None),
       Concept("TOY:3", <<"d">>, << >>, None) >>

MentionTexts == { <<"c">>, <<"C">>, <<"d">>, <<"x">> }

\* RetrievalConfig with top_k 1, 2 or the default, vector_min_score the default
\* or 0.6
RetrievalConfigs ==
    {[RetrievalConfig EXCEPT !.top_k = k, !.vector_min_score = m] :
        k \in {1, 2, RetrievalConfig.top_k}, m \in {RetrievalConfig.vector_min_score, 60}}

\* a candidate as vector_search builds it
VectorCandidate(cid, score) ==
    Candidate(cid, concept(RetrievalStore, cid).label, score, None, None)

VectorCandidates ==
    {VectorCandidate(cid, sc) : cid \in Range(concept_ids(RetrievalStore)), sc \in {50, 90, 95}}

\* what vector_search returns: at most n candidates, of distinct concepts
VectorAnswers(n) ==
    {v \in UNION {[1..k -> VectorCandidates] : k \in 0..n} :
        \A i, j \in 1..Len(v) : i # j => v[i].candidate_id # v[j].candidate_id}

InitRetrieve ==
    /\ rt_in \in [mention_text : MentionTexts, cfg : RetrievalConfigs,
                  embedder : BOOLEAN, vec_cands : VectorAnswers(MaxVec)]
    /\ rt_out = None
    /\ IdleLink /\ IdleStatus /\ IdleExtract /\ IdleIndex /\ IdleWorkers /\ IdlePipeline /\ IdleConfig /\ IdleSteps /\ IdleRerank
    /\ IdleReport

\* retriever.retrieve(ontology_name, mention_text)
Retrieve ==
    /\ rt_out = None
    /\ rt_out' = Some(retrieve(RetrievalStore, rt_in.cfg, rt_in.embedder, rt_in.vec_cands,
                               rt_in.mention_text))
    /\ UNCHANGED <<rt_in, linkVars, statusVars, extractVars, indexVars, workerVars,
                   pipelineVars, reportVars, configVars, stepVars, rerankVars>>

NextRetrieve == Retrieve

SpecRetrieve == InitRetrieve /\ [][NextRetrieve]_vars

\* the concepts whose label or synonym is the text, and those that match it
\* after normalization
exact_matches(text) == {c.concept_id : c \in {x \in Range(RetrievalStore) : text \in Range(terms(x))}}
normalized_matches(text) ==
    {c.concept_id : c \in {x \in Range(RetrievalStore) :
                              has_normalized_term(x, normalize_text(text))}}

\* the concepts of the vector answer that pass vector_min_score
vector_matches(in) ==
    IF in.embedder
    THEN {in.vec_cands[i].candidate_id :
             i \in {j \in 1..Len(in.vec_cands) : in.vec_cands[j].score >= in.cfg.vector_min_score}}
    ELSE {}

\* the full merged set of the call
merged_ids(in) ==
    exact_matches(in.mention_text) \cup normalized_matches(in.mention_text)
        \cup vector_matches(in)

\* the score the merged set holds for the concept cid
merged_score(in, cid) ==
    LET lex == IF cid \in exact_matches(in.mention_text) THEN {in.cfg.lexical_exact_score}
               ELSE IF cid \in normalized_matches(in.mention_text)
               THEN {in.cfg.lexical_norm_score} ELSE {}
        vec == IF cid \in vector_matches(in)
               THEN {in.vec_cands[i].score : i \in {j \in 1..Len(in.vec_cands) :
                                                  in.vec_cands[j].candidate_id = cid}}
               ELSE {}
    IN CHOOSE m \in lex \cup vec : \A x \in lex \cup vec : m >= x

\* concept a comes before concept b in (descending score, candidate_id) order
ranked_before(in, a, b) ==
    \/ merged_score(in, a) > merged_score(in, b)
    \/ merged_score(in, a) = merged_score(in, b) /\ StrLt(a, b)

\* C16: retrieve returns at most top_k candidates, no candidate_id twice, in
\* descending score order with ties in ascending candidate_id order, and they
\* are the first top_k of the full merged set in that order.
C16_TopKOrdered ==
    rt_out # None =>
        /\ Len(rt_out[1]) = Min(rt_in.cfg.top_k, Cardinality(merged_ids(rt_in)))
        /\ \A i, j \in 1..Len(rt_out[1]) :
              i < j => /\ rt_out[1][i].candidate_id # rt_out[1][j].candidate_id
                       /\ CandLt(rt_out[1][i], rt_out[1][j])
        /\ \A i \in 1..Len(rt_out[1]) :
              /\ rt_out[1][i].candidate_id \in merged_ids(rt_in)
              /\ rt_out[1][i].score = merged_score(rt_in, rt_out[1][i].candidate_id)
              /\ \A cid \in merged_ids(rt_in) \ ids(rt_out[1]) :
                    ranked_before(rt_in, rt_out[1][i].candidate_id, cid)

\* the merged set held lexical and vector hits and was larger than top_k, and
\* the candidate_id decided which of two equal scores was returned
C16_Witness ==
    /\ rt_out # None /\ Len(rt_out[1]) = 2
    /\ Cardinality(merged_ids(rt_in)) = 3
    /\ vector_matches(rt_in) # {}
    /\ \E cid \in merged_ids(rt_in) \ ids(rt_out[1]) :
          merged_score(rt_in, cid) = rt_out[1][2].score

\* the concepts the mention text matches lexically
lexical_matches(text) == exact_matches(text) \cup normalized_matches(text)

\* the source the merge records for a lexical match
lexical_source(text, cid) ==
    IF cid \in exact_matches(text) THEN Some("lexical_exact") ELSE Some("lexical_norm")

\* the number of merged concepts ranked before cid
rank_before(in, cid) ==
    Cardinality({c \in merged_ids(in) \ {cid} : ranked_before(in, c, cid)})

\* the candidate returned for the concept cid
returned(cid) == {rt_out[1][i] : i \in {j \in 1..Len(rt_out[1]) : rt_out[1][j].candidate_id = cid}}

\* C17 as stated: every concept the mention text matches lexically is among
\* the returned candidates with a source of lexical_exact or lexical_norm.
C17_Original_LexicalReturned ==
    rt_out # None =>
        \A cid \in lexical_matches(rt_in.mention_text) :
            \E c \in returned(cid) : c.source \in {Some("lexical_exact"), Some("lexical_norm")}

\* C17: a concept the mention text matches lexically is returned exactly when
\* fewer than top_k merged candidates rank before it, and then with the source
\* lexical_exact (exact match) or lexical_norm (match after normalization) and
\* the larger of its lexical score and its vector score, also when the vector
\* search returns the same concept.
C17_LexicalKeptWithinTopK ==
    rt_out # None =>
        \A cid \in lexical_matches(rt_in.mention_text) :
            IF rank_before(rt_in, cid) < rt_in.cfg.top_k
            THEN /\ returned(cid) # {}
                 /\ \A c \in returned(cid) :
                       /\ c.source = lexical_source(rt_in.mention_text, cid)
                       /\ c.score = merged_score(rt_in, cid)
            ELSE returned(cid) = {}

\* the vector search returned a lexical match with a score above its lexical
\* score, and the concept was returned
C17_Witness ==
    /\ rt_out # None
    /\ \E cid \in lexical_matches(rt_in.mention_text) \cap vector_matches(rt_in) :
          \E c \in returned(cid) :
              /\ c.score > rt_in.cfg.lexical_norm_score
              /\ c.source = Some("lexical_norm")

\* the scores the vector answer gives the concept cid, those below
\* vector_min_score left out
passing_vector_scores(in, cid) ==
    IF in.embedder
    THEN {in.vec_cands[i].score :
             i \in {j \in 1..Len(in.vec_cands) :
                       /\ in.vec_cands[j].candidate_id = cid
                       /\ in.vec_cands[j].score >= in.cfg.vector_min_score}}
    ELSE {}

\* the vector hits of the call that vector_min_score discards
discarded_vector_hits(in) ==
    IF in.embedder
    THEN {in.vec_cands[i].candidate_id :
             i \in {j \in 1..Len(in.vec_cands) : in.vec_cands[j].score < in.cfg.vector_min_score}}
    ELSE {}

\* the largest of a set of scores
largest(scores) == CHOOSE m \in scores : \A x \in scores : m >= x

\* C26: every concept is merged once: an exact hit has lexical_exact_score and
\* the source lexical_exact, a normalized hit that is no exact hit has
\* lexical_norm_score and the source lexical_norm, a vector hit below
\* vector_min_score adds nothing, a passing vector hit for a concept already
\* merged raises its score to the larger of the two and leaves its source, and
\* any other passing vector hit is held with the source vector and its own
\* score; with top_k no smaller than the merged set, all of it is returned.
C26_MergedOnce ==
    rt_out # None =>
        /\ \A i, j \in 1..Len(rt_out[1]) :
              rt_out[1][i].candidate_id = rt_out[1][j].candidate_id => i = j
        /\ \A i \in 1..Len(rt_out[1]) :
              LET c == rt_out[1][i]
                  vs == passing_vector_scores(rt_in, c.candidate_id)
              IN  IF c.candidate_id \in exact_matches(rt_in.mention_text)
                  THEN /\ c.source = Some("lexical_exact")
                       /\ c.score = largest(vs \cup {rt_in.cfg.lexical_exact_score})
                  ELSE IF c.candidate_id \in normalized_matches(rt_in.mention_text)
                  THEN /\ c.source = Some("lexical_norm")
                       /\ c.score = largest(vs \cup {rt_in.cfg.lexical_norm_score})
                  ELSE /\ c.source = Some("vector")
                       /\ vs = {c.score}
        /\ Cardinality(merged_ids(rt_in)) <= rt_in.cfg.top_k =>
              ids(rt_out[1]) = merged_ids(rt_in)

\* one call with an exact hit, a normalized hit that a vector hit raised above
\* lexical_norm_score, a concept only the vector search found, and a vector hit
\* discarded for its score
C26_Witness ==
    /\ rt_out # None
    /\ \E i, j, k \in 1..Len(rt_out[1]) :
          /\ rt_out[1][i].source = Some("lexical_exact")
          /\ rt_out[1][j].source = Some("lexical_norm")
          /\ rt_out[1][j].score > rt_in.cfg.lexical_norm_score
          /\ rt_out[1][k].source = Some("vector")
    /\ discarded_vector_hits(rt_in) # {}

-----------------------------------------------------------------------------
(* compute_gse_summary and compute_corpus_report on their own, over studies *)
(* whose records hold entities of every status, repeated surface forms and  *)
(* equal counts.                                                            *)

MaxRecords == 2

\* top_n of the study summaries: below, at and above the number of keys of a
\* study
ReportTopNs == {1, 2, 20}

\* top_n of the corpus report and of the metrics: below the number of keys of
\* the corpus, and the 50 of run_pipeline
GlobalTopNs == {2, 50}

\* the entity lists of the sample records of the model
ReportEntityLists ==
    { << >>,
      << ReportEntity("disease", "AMBIGUOUS", "title", <<"a">>),
         ReportEntity("disease", "AMBIGUOUS", "title", <<"b">>) >>,
      << ReportEntity("disease", "AMBIGUOUS", "title", <<"b">>),
         ReportEntity("tissue", "AMBIGUOUS", "title", <<"a">>) >>,
      << ReportEntity("disease", "UNRESOLVED", "title", <<"a">>),
         ReportEntity("tissue", "UNRESOLVED", "summary", <<"b">>) >>,
      << ReportEntity("disease", "RESOLVED", "title", <<"a">>),
         ReportEntity("tissue", "REJECTED", "title", <<"a">>) >>,
      << ReportEntity("disease", "AMBIGUOUS", "title", <<"a">>),
         ReportEntity("disease", "UNRESOLVED", "title", <<"a">>) >>,
      << ReportEntity("tissue", "UNRESOLVED", "summary", <<"b">>) >>,
      << ReportEntity("disease", "AMBIGUOUS", "title", <<"a">>),
         ReportEntity("disease", "AMBIGUOUS", "title", <<"a">>) >> }

\* the entities of the list that carry the label, in list order
RECURSIVE of_label(_, _)
of_label(es, lbl) ==
    IF es = << >> THEN << >>
    ELSE IF Head(es).label = lbl THEN <<Head(es)>> \o of_label(Tail(es), lbl)
    ELSE of_label(Tail(es), lbl)

\* the entities mapping of a record: the entities under their labels, the
\* labels in ascending order
entities_by_label(es) ==
    [k \in 1..Cardinality({es[i].label : i \in 1..Len(es)}) |->
        [label |-> SortedStrs({es[i].label : i \in 1..Len(es)})[k],
         entities |-> of_label(es, SortedStrs({es[i].label : i \in 1..Len(es)})[k])]]

\* the records of a study: at most n, one per entity list
ReportRecordLists(gse, n) ==
    {[k \in 1..Len(ess) |->
         [gse_id |-> gse, gsm_id |-> <<Chars[15 + k]>>, entities |-> entities_by_label(ess[k])]] :
     ess \in UNION {[1..m -> ReportEntityLists] : m \in 0..n}}

ReportStudy(gse, records) == [gse_id |-> gse, records |-> records]

\* the studies of a run in processing order: one study, or two of which the
\* second has at most one record
ReportInputs ==
    {<<ReportStudy(<<"e">>, a)>> : a \in ReportRecordLists(<<"e">>, MaxRecords)}
    \cup {<<ReportStudy(<<"e">>, a), ReportStudy(<<"f">>, b)>> :
             a \in ReportRecordLists(<<"e">>, MaxRecords), b \in ReportRecordLists(<<"f">>, 1)}

InitReport ==
    /\ rp_records \in ReportInputs
    /\ rp_top_n \in ReportTopNs
    /\ rp_global_n \in GlobalTopNs
    /\ rp_summaries = << >>
    /\ rp_report = None
    /\ rp_metrics = None
    /\ IdleLink /\ IdleStatus /\ IdleExtract /\ IdleIndex /\ IdleWorkers /\ IdlePipeline /\ IdleConfig /\ IdleSteps /\ IdleRerank
    /\ IdleRetrieve

\* compute_gse_summary for the next study
ComputeGseSummary ==
    /\ Len(rp_summaries) < Len(rp_records)
    /\ rp_summaries' = Append(rp_summaries,
           compute_gse_summary(rp_records[Len(rp_summaries) + 1].gse_id,
                               rp_records[Len(rp_summaries) + 1].records, rp_top_n))
    /\ UNCHANGED <<rp_records, rp_top_n, rp_global_n, rp_report, rp_metrics, linkVars, statusVars, extractVars,
                   indexVars, workerVars, pipelineVars, retrieveVars, configVars, stepVars, rerankVars>>

\* compute_corpus_report once every study has its summary
ComputeCorpusReport ==
    /\ Len(rp_summaries) = Len(rp_records) /\ rp_report = None
    /\ rp_report' = Some(compute_corpus_report("runA", <<"runA", "manifest.json">>,
                             [i \in 1..Len(rp_records) |-> rp_records[i].gse_id],
                             rp_summaries, rp_global_n))
    /\ UNCHANGED <<rp_records, rp_top_n, rp_global_n, rp_summaries, rp_metrics, linkVars, statusVars, extractVars,
                   indexVars, workerVars, pipelineVars, retrieveVars, configVars, stepVars, rerankVars>>

\* compute_metrics_from_gsm_jsonl on the gsm.jsonl of the finished run, which
\* holds the records of the studies in processing order
ComputeMetrics ==
    /\ rp_report # None /\ rp_metrics = None
    /\ rp_metrics' = Some(compute_metrics_from_gsm_jsonl(
                              Concat([i \in 1..Len(rp_records) |-> rp_records[i].records]),
                              rp_global_n))
    /\ UNCHANGED <<rp_records, rp_top_n, rp_global_n, rp_summaries, rp_report, linkVars,
                   statusVars, extractVars, indexVars, workerVars, pipelineVars, retrieveVars,
                   configVars, stepVars, rerankVars>>

NextReport ==
    \/ ComputeGseSummary
    \/ ComputeCorpusReport
    \/ ComputeMetrics

SpecReport == InitReport /\ [][NextReport]_vars

\* where the records hold an entity: record, label key, place in the list
positions(records) ==
    UNION {UNION {{<<r, k, i>> : i \in 1..Len(records[r].entities[k].entities)} :
                     k \in 1..Len(records[r].entities)} :
              r \in 1..Len(records)}

entity_at(records, p) == records[p[1]].entities[p[2]].entities[p[3]]

\* the number of entities of the records with the label and the status
n_entities(records, lbl, status) ==
    Cardinality({p \in positions(records) :
                    /\ entity_at(records, p).label = lbl
                    /\ entity_at(records, p).status = status})

\* the labels of the entities of the records
labels_of(records) == {entity_at(records, p).label : p \in positions(records)}

\* the YieldStats counts the entities of the records with the label exactly
counts_exactly(ys, records, lbl) ==
    /\ ys.resolved = n_entities(records, lbl, "RESOLVED")
    /\ ys.ambiguous = n_entities(records, lbl, "AMBIGUOUS")
    /\ ys.unresolved = n_entities(records, lbl, "UNRESOLVED")
    /\ ys.rejected = n_entities(records, lbl, "REJECTED")
    /\ ys.total = ys.resolved + ys.ambiguous + ys.unresolved + ys.rejected

\* the yields items hold one YieldStats for each label of the records, and it
\* counts the entities of the records
yields_exact(items, records) ==
    /\ {items[k].label : k \in 1..Len(items)} = labels_of(records)
    /\ \A j, k \in 1..Len(items) : j < k => StrLt(items[j].label, items[k].label)
    /\ \A k \in 1..Len(items) : counts_exactly(items[k].stats, records, items[k].label)

\* the sample records of all studies
corpus_records == Concat([i \in 1..Len(rp_records) |-> rp_records[i].records])

\* the sum, field by field, of the per-study YieldStats of the label
agg_sum(lbl) ==
    LET per(i) == IF \E k \in 1..Len(rp_summaries[i].yields_by_label) :
                        rp_summaries[i].yields_by_label[k].label = lbl
                  THEN {rp_summaries[i].yields_by_label[k].stats :
                           k \in {j \in 1..Len(rp_summaries[i].yields_by_label) :
                                     rp_summaries[i].yields_by_label[j].label = lbl}}
                  ELSE {}
        field(i, f) == IF per(i) = {} THEN 0 ELSE (CHOOSE ys \in per(i) : TRUE)[f]
        tot(f) == sum([i \in 1..Len(rp_summaries) |-> field(i, f)])
    IN [total |-> tot("total"), resolved |-> tot("resolved"), ambiguous |-> tot("ambiguous"),
        unresolved |-> tot("unresolved"), rejected |-> tot("rejected")]

\* C18: aggregate_yields_by_label[l] of the corpus report holds, for each
\* status, the number of entities with label l and that status over all sample
\* records of all processed studies, which is the sum of the per-study yields;
\* in every YieldStats of a study summary or of the corpus report
\* total = resolved + ambiguous + unresolved + rejected.
C18_YieldsExact ==
    /\ \A i \in 1..Len(rp_summaries) :
          yields_exact(rp_summaries[i].yields_by_label, rp_records[i].records)
    /\ rp_report # None =>
          /\ yields_exact(rp_report[1].aggregate_yields_by_label, corpus_records)
          /\ \A k \in 1..Len(rp_report[1].aggregate_yields_by_label) :
                rp_report[1].aggregate_yields_by_label[k].stats =
                    agg_sum(rp_report[1].aggregate_yields_by_label[k].label)

\* the report adds up a label that two studies hold, with entities of all four
\* statuses among them
C18_Witness ==
    /\ rp_report # None /\ Len(rp_summaries) = 2
    /\ \E k \in 1..Len(rp_report[1].aggregate_yields_by_label) :
          /\ rp_report[1].aggregate_yields_by_label[k].stats.total >= 3
          /\ \A i \in 1..2 :
                stats_get(rp_summaries[i], rp_report[1].aggregate_yields_by_label[k].label).total > 0
    /\ \E k \in 1..Len(rp_report[1].aggregate_yields_by_label) :
          rp_report[1].aggregate_yields_by_label[k].stats.rejected > 0
    /\ \E k \in 1..Len(rp_report[1].aggregate_yields_by_label) :
          rp_report[1].aggregate_yields_by_label[k].stats.resolved > 0

\* the number of entities of the records with the key and the status
n_key(records, sfk, status) ==
    Cardinality({p \in positions(records) :
                    /\ sf_key(entity_at(records, p)) = sfk
                    /\ entity_at(records, p).status = status})

\* the keys of the entities of the records that have the status
keys_with(records, status) ==
    {sf_key(entity_at(records, p)) :
        p \in {q \in positions(records) : entity_at(records, q).status = status}}

\* key a comes before key b in (descending count, ascending key) order
key_before(records, status, a, b) ==
    \/ n_key(records, a, status) > n_key(records, b, status)
    \/ n_key(records, a, status) = n_key(records, b, status) /\ KeyLt(a, b)

\* top is the list of the first top_n keys of the status, each with its count
top_exact(top, records, status, top_n) ==
    /\ Len(top) = Min(top_n, Cardinality(keys_with(records, status)))
    /\ \A j \in 1..Len(top) :
          /\ sf_key(top[j]) \in keys_with(records, status)
          /\ top[j].count = n_key(records, sf_key(top[j]), status)
          /\ \A k \in 1..Len(top) :
                j < k => key_before(records, status, sf_key(top[j]), sf_key(top[k]))
          /\ \A sfk \in keys_with(records, status) \ {sf_key(top[k]) : k \in 1..Len(top)} :
                key_before(records, status, sf_key(top[j]), sfk)

\* C19: top_ambiguous (resp. top_unresolved) of a study summary holds the at
\* most top_n keys (label, source_field, surface_form) with the highest number
\* of AMBIGUOUS (resp. UNRESOLVED) entities in the study's records, each with
\* its exact count, in descending count order with ties in ascending key
\* order; entities of other statuses never contribute.
C19_TopSurfaceForms ==
    \A i \in 1..Len(rp_summaries) :
        /\ top_exact(rp_summaries[i].top_ambiguous, rp_records[i].records, "AMBIGUOUS", rp_top_n)
        /\ top_exact(rp_summaries[i].top_unresolved, rp_records[i].records, "UNRESOLVED",
                     rp_top_n)

\* a study has more AMBIGUOUS keys than top_n, two of them with the same
\* count, and one of the listed keys also has an UNRESOLVED entity
C19_Witness ==
    \E i \in 1..Len(rp_summaries) :
        /\ Len(rp_summaries[i].top_ambiguous) = rp_top_n
        /\ \E sfk \in keys_with(rp_records[i].records, "AMBIGUOUS") :
              /\ \A k \in 1..rp_top_n : sf_key(rp_summaries[i].top_ambiguous[k]) # sfk
              /\ n_key(rp_records[i].records, sfk, "AMBIGUOUS")
                    = rp_summaries[i].top_ambiguous[rp_top_n].count
        /\ \E k \in 1..rp_top_n :
              n_key(rp_records[i].records, sf_key(rp_summaries[i].top_ambiguous[k]),
                    "UNRESOLVED") > 0

\* no study has more keys among its entities of the status than the top_n of
\* the study summaries
within_top_n(status) ==
    \A i \in 1..Len(rp_records) :
        Cardinality(keys_with(rp_records[i].records, status)) <= rp_top_n

\* C30: when every processed study has at most top_n distinct keys (label,
\* source_field, surface_form) among its AMBIGUOUS (resp. UNRESOLVED)
\* entities, global_top_ambiguous (resp. global_top_unresolved) of the corpus
\* report, summed from the per-study top lists, is the list that
\* compute_metrics_from_gsm_jsonl computes from all records with the same
\* cut.
C30_GlobalTopExact ==
    (rp_report # None /\ rp_metrics # None) =>
        /\ within_top_n("AMBIGUOUS") =>
              rp_report[1].global_top_ambiguous = rp_metrics[1].top_ambiguous
        /\ within_top_n("UNRESOLVED") =>
              rp_report[1].global_top_unresolved = rp_metrics[1].top_unresolved

\* two studies, neither with more AMBIGUOUS keys than top_n and one with as
\* many, share a key that one of them counts more than once; the corpus has
\* more keys than the cut of the global list
C30_Witness ==
    /\ rp_report # None /\ rp_metrics # None /\ Len(rp_records) = 2
    /\ within_top_n("AMBIGUOUS")
    /\ \E i \in 1..2 : Cardinality(keys_with(rp_records[i].records, "AMBIGUOUS")) = rp_top_n
    /\ \E sfk \in keys_with(rp_records[1].records, "AMBIGUOUS")
                    \cap keys_with(rp_records[2].records, "AMBIGUOUS") :
          n_key(rp_records[1].records, sfk, "AMBIGUOUS") > 1
    /\ Cardinality(keys_with(corpus_records, "AMBIGUOUS")) > rp_global_n
    /\ Len(rp_metrics[1].top_ambiguous) = rp_global_n

-----------------------------------------------------------------------------
(* _build_link_cfg: the LinkConfig run_pipeline makes of its configuration  *)

\* a policy section: each of tau, delta and top_n given or left out
PolicySections ==
    [tau : {None, Some(50)}, delta : {None, Some(20)}, top_n : {None, Some(3)}]

\* a linker section: include_negation and context_window_chars given or left
\* out, with or without a policy section of its own
LinkerSections ==
    [include_negation : {None, Some(TRUE), Some(FALSE)},
     context_window_chars : {None, Some(100)},
     policy : {None} \cup {Some(ps) : ps \in PolicySections}]

\* the run configurations of the model.  loaded says that the object is what
\* load_config returns, a CanonicalConfig, and not an object that carries the
\* sections of the file as attributes
RunConfigs ==
    [loaded : BOOLEAN,
     policy : {None} \cup {Some(ps) : ps \in PolicySections},
     linker : {None} \cup {Some(ls) : ls \in LinkerSections}]

\* the value given under the key, or the default
given_or(opt, default) == IF opt = None THEN default ELSE opt[1]

\* getattr(cfg, "linker", None): CanonicalConfig declares run, query, models,
\* ontologies and textview, and model_validate drops every other key
getattr_linker(rc) == IF rc.loaded THEN None ELSE rc.linker

\* PolicyConfig(**pol) / PolicyConfig(**kwargs) from the linker's policy
policy_of(pol) ==
    IF pol = None THEN PolicyConfig
    ELSE [tau |-> given_or(pol[1].tau, PolicyConfig.tau),
          delta |-> given_or(pol[1].delta, PolicyConfig.delta),
          top_n |-> given_or(pol[1].top_n, PolicyConfig.top_n)]

_build_link_cfg(rc) ==
    IF getattr_linker(rc) = None THEN LinkConfig
    ELSE [LinkConfig EXCEPT
            !.tau = policy_of(getattr_linker(rc)[1].policy).tau,
            !.delta = policy_of(getattr_linker(rc)[1].policy).delta,
            !.top_n = policy_of(getattr_linker(rc)[1].policy).top_n,
            !.include_negation =
                given_or(getattr_linker(rc)[1].include_negation, LinkConfig.include_negation),
            !.context_window_chars =
                given_or(getattr_linker(rc)[1].context_window_chars,
                         LinkConfig.context_window_chars)]

InitConfig ==
    /\ run_cfg \in RunConfigs
    /\ link_cfg = None
    /\ IdleLink /\ IdleStatus /\ IdleExtract /\ IdleIndex /\ IdleWorkers /\ IdlePipeline
    /\ IdleRetrieve /\ IdleReport /\ IdleSteps /\ IdleRerank

\* link_cfg = _build_link_cfg(cfg) in run_pipeline
BuildLinkCfg ==
    /\ link_cfg = None
    /\ link_cfg' = Some(_build_link_cfg(run_cfg))
    /\ UNCHANGED <<run_cfg, linkVars, statusVars, extractVars, indexVars, workerVars,
                   pipelineVars, retrieveVars, reportVars, stepVars, rerankVars>>

NextConfig == BuildLinkCfg

SpecConfig == InitConfig /\ [][NextConfig]_vars

\* C21: the tau, delta and top_n of the LinkConfig run_pipeline applies are the
\* values the run configuration gives under policy.tau, policy.delta and
\* policy.top_n, its negation switch is the value given under
\* linker.include_negation, and the defaults (0.70, 0.10, 5, off) stand only
\* where the configuration gives no value.
C21_ConfigApplied ==
    link_cfg # None =>
        /\ link_cfg[1].tau =
              IF run_cfg.policy = None THEN PolicyConfig.tau
              ELSE given_or(run_cfg.policy[1].tau, PolicyConfig.tau)
        /\ link_cfg[1].delta =
              IF run_cfg.policy = None THEN PolicyConfig.delta
              ELSE given_or(run_cfg.policy[1].delta, PolicyConfig.delta)
        /\ link_cfg[1].top_n =
              IF run_cfg.policy = None THEN PolicyConfig.top_n
              ELSE given_or(run_cfg.policy[1].top_n, PolicyConfig.top_n)
        /\ link_cfg[1].include_negation =
              IF run_cfg.linker = None THEN FALSE
              ELSE given_or(run_cfg.linker[1].include_negation, FALSE)

-----------------------------------------------------------------------------
(* link_mentions step by step: the loop over the mentions of one batch,    *)
(* with the calls it makes to the negation detector, the retriever and the *)
(* reranker, and the final dedup_entities.  The mentions are any spans a   *)
(* model extractor may hand over, spans that no field holds included.      *)

MaxMentions == 2

\* the texts of the model: a negation before, after and beside the mentions,
\* in the mention's field and in the other one
LinkRawFields ==
    { [summary |-> << >>, title |-> <<"n", "o", " ", "d", " ", "c", " ", "d">>],
      [summary |-> <<"n", "o">>, title |-> <<"c", " ", "d", " ", "c">>],
      [summary |-> <<"c">>, title |-> <<"C", " ", "n", "o", "t", " ", "d">>],
      [summary |-> <<"c", " ", "n", "o">>, title |-> <<"n", "o", "d", " ", "d">>] }

\* the spans of the words of a text, 0-based and half-open
word_spans(text) ==
    {sp \in (0..Len(text)) \X (0..Len(text)) :
        /\ sp[1] < sp[2]
        /\ \A k \in (sp[1] + 1)..sp[2] : isword(text[k])
        /\ boundary(text, sp[1] + 1) /\ boundary(text, sp[2] + 1)}

\* the mentions an extractor may hand to link_mentions for the fields: one per
\* word, one whose span ends beyond its field, one of a field that is absent
LinkMentionPool(raw) ==
    UNION {{Mention("disease", Slice(raw[f], sp[1], sp[2]), f, sp[1], sp[2], 100) :
               sp \in word_spans(raw[f])} : f \in DOMAIN raw}
    \cup {Mention("disease", <<"c">>, "summary", Len(raw.summary), Len(raw.summary) + 1, 100),
          Mention("disease", <<"d">>, "abstract", 0, 1, 100)}

\* the batches of at most n mentions
MentionLists(raw, n) == UNION {[1..k -> LinkMentionPool(raw)] : k \in 0..n}

\* the configurations of the model: those of LinkConfigs, and two that retain a
\* single candidate
LinkStepConfigs ==
    LinkConfigs \cup
    { [LinkConfig EXCEPT !.top_n = 1],
      [LinkConfig EXCEPT !.top_n = 1, !.reranker = "len", !.tau = 95] }

\* the ontology of the batch
LinkStore == store_of("disease")

\* the locals of link_mentions: the index of the mention of the loop, the
\* position in its body, cands, rr and out
Activation(i, at_pc, cands, rr, out) ==
    [i |-> i, pc |-> at_pc, cands |-> cands, rr |-> rr, out |-> out]

\* a call to a component for mention i, with what it returned
Called(fn, i, result) == [fn |-> fn, i |-> i, result |-> result]

\* the position at which the loop goes on with mention i
loop_at(i) == IF i > Len(mentions) THEN "dedup" ELSE "negation"

InitLink ==
    /\ raw_fields \in LinkRawFields
    /\ cfg \in LinkStepConfigs
    /\ mentions \in MentionLists(raw_fields, MaxMentions)
    /\ todo = << >> /\ linked = << >> /\ grouped = << >> /\ pc = "idle"
    /\ lm = Activation(1, loop_at(1), << >>, None, << >>)
    /\ lm_calls = << >>
    /\ IdleStatus /\ IdleExtract /\ IdleIndex /\ IdleWorkers /\ IdlePipeline
    /\ IdleRetrieve /\ IdleReport /\ IdleConfig /\ IdleRerank

\* as appended, with the duplicates merged as the loop goes
appended_merging(l, e) ==
    [l EXCEPT !.out = dedup_entities(Append(l.out, e)), !.i = l.i + 1,
              !.pc = loop_at(l.i + 1)]

\* out.append(LinkedEntity(...)), and on to the next mention
appended(l, e) ==
    [l EXCEPT !.out = Append(l.out, e), !.i = l.i + 1, !.pc = loop_at(l.i + 1)]

\* as retrieved_none, never true
retrieved_none_ignored(cands) == FALSE

\* if not cands
retrieved_none(cands) == cands = << >>

\* if cfg.include_negation and is_negated(raw_fields, m, cfg.negation)
LinkNegation ==
    /\ lm # None /\ lm.pc = "negation"
    /\ IF cfg.include_negation
       THEN /\ lm_calls' = Append(lm_calls,
                   Called("is_negated", lm.i,
                          is_negated(raw_fields, mentions[lm.i], cfg.window_chars)))
            /\ lm' = IF is_negated(raw_fields, mentions[lm.i], cfg.window_chars)
                     THEN appended(lm, LinkedEntity(blank_payload(mentions[lm.i], "REJECTED")))
                     ELSE [lm EXCEPT !.pc = "retrieve"]
       ELSE /\ lm' = [lm EXCEPT !.pc = "retrieve"]
            /\ UNCHANGED lm_calls
    /\ UNCHANGED <<raw_fields, cfg, mentions, todo, linked, grouped, pc, statusVars,
                   extractVars, indexVars, workerVars, pipelineVars, retrieveVars,
                   reportVars, configVars, rerankVars>>

\* the candidates the retriever of the batch returns for the mention
retrieved(m) == retrieve(LinkStore, RetrievalConfig, FALSE, << >>, m.surface_form)

\* cands = retriever.retrieve(ontology_name, m.surface_form), and the
\* UNRESOLVED entity when there are none
LinkRetrieve ==
    /\ lm # None /\ lm.pc = "retrieve"
    /\ lm_calls' = Append(lm_calls, Called("retrieve", lm.i, retrieved(mentions[lm.i])))
    /\ lm' = IF retrieved_none(retrieved(mentions[lm.i]))
             THEN appended(lm, LinkedEntity(blank_payload(mentions[lm.i], "UNRESOLVED")))
             ELSE [lm EXCEPT !.cands = retrieved(mentions[lm.i]), !.pc = "rerank"]
    /\ UNCHANGED <<raw_fields, cfg, mentions, todo, linked, grouped, pc, statusVars,
                   extractVars, indexVars, workerVars, pipelineVars, retrieveVars,
                   reportVars, configVars, rerankVars>>

\* what the reranker returns for the mention and the candidates
reranked(m, cands) ==
    rerank(cfg.reranker, m.surface_form,
           local_context(raw_fields, m, cfg.context_window_chars), cands)

\* ctx = local_context(...); rr = reranker.rerank(m.surface_form, ctx, cands)
LinkRerank ==
    /\ lm # None /\ lm.pc = "rerank"
    /\ lm_calls' = Append(lm_calls,
           Called("rerank", lm.i, reranked(mentions[lm.i], lm.cands)))
    /\ lm' = [lm EXCEPT !.rr = Some(reranked(mentions[lm.i], lm.cands)), !.pc = "status"]
    /\ UNCHANGED <<raw_fields, cfg, mentions, todo, linked, grouped, pc, statusVars,
                   extractVars, indexVars, workerVars, pipelineVars, retrieveVars,
                   reportVars, configVars, rerankVars>>

\* assign_status, the candidate retention and the LinkedEntity of the mention;
\* a payload the validation rejects ends the call with its error
LinkStatus ==
    /\ lm # None /\ lm.pc = "status"
    /\ lm' = IF ValidEntity(reranked_payload(mentions[lm.i], cfg, lm.rr[1]))
             THEN appended(lm, LinkedEntity(reranked_payload(mentions[lm.i], cfg, lm.rr[1])))
             ELSE [lm EXCEPT !.pc = "error"]
    /\ UNCHANGED <<raw_fields, cfg, mentions, todo, linked, grouped, pc, lm_calls,
                   statusVars, extractVars, indexVars, workerVars, pipelineVars,
                   retrieveVars, reportVars, configVars, rerankVars>>

\* return dedup_entities(out)
LinkDedup ==
    /\ lm # None /\ lm.pc = "dedup"
    /\ linked' = dedup_entities(lm.out)
    /\ lm' = [lm EXCEPT !.pc = "done"]
    /\ UNCHANGED <<raw_fields, cfg, mentions, todo, grouped, pc, lm_calls,
                   statusVars, extractVars, indexVars, workerVars, pipelineVars,
                   retrieveVars, reportVars, configVars, rerankVars>>

NextLink ==
    \/ LinkNegation
    \/ LinkRetrieve
    \/ LinkRerank
    \/ LinkStatus
    \/ LinkDedup

SpecLink == InitLink /\ [][NextLink]_vars

\* the step by step loop and link_mentions as one function agree
LinkStepsAgree ==
    lm # None /\ lm.pc = "done" =>
        /\ ~link_raises(raw_fields, mentions, LinkStore, cfg)
        /\ lm.out = link_out(raw_fields, mentions, LinkStore, cfg)
        /\ linked = link_mentions(raw_fields, mentions, LinkStore, cfg)

\* the span lies inside raw_fields[field_key]
span_inside(raw, o) ==
    /\ o.field_key \in DOMAIN raw
    /\ o.start <= o.end /\ o.end <= Len(raw[o.field_key])

\* the entities link_mentions has built or returned
link_entities == (IF lm = None THEN {} ELSE Range(lm.out)) \cup Range(linked)

\* C22: link_mentions fails fast, emitting no entity, when the offsets of a
\* mention are invalid for its source field (end < start, end beyond the
\* field's length, or the field absent from raw_fields); it never links a
\* mention whose span does not lie inside raw_fields[source_field].
C22_OffsetsChecked ==
    /\ \A e \in link_entities : span_inside(raw_fields, e.offsets)
    /\ (\E i \in 1..Len(mentions) : ~span_inside(raw_fields, offsets(mentions[i])))
          => lm.pc # "done" /\ linked = << >>

\* C23: before deduplication link_mentions has built exactly one LinkedEntity
\* per mention, in the order of the mentions, each with one of the four
\* statuses and with the status and fields that the mention gets when it is
\* linked alone with the same raw_fields and configuration; the retriever and
\* the reranker are each called at most once per mention.
C23_OneEntityPerMention ==
    lm # None =>
        /\ Len(lm.out) = (IF lm.pc \in {"dedup", "done"} THEN Len(mentions) ELSE lm.i - 1)
        /\ \A k \in 1..Len(lm.out) :
              /\ lm.out[k] = link_out(raw_fields, <<mentions[k]>>, LinkStore, cfg)[1]
              /\ lm.out[k].label = mentions[k].label
              /\ lm.out[k].surface_form = mentions[k].surface_form
              /\ lm.out[k].source_field = mentions[k].source_field
              /\ lm.out[k].offsets = offsets(mentions[k])
              /\ lm.out[k].provenances = <<offsets(mentions[k])>>
              /\ lm.out[k].status \in {"RESOLVED", "AMBIGUOUS", "UNRESOLVED", "REJECTED"}
        /\ \A i \in 1..Len(mentions) : \A fn \in {"is_negated", "retrieve", "rerank"} :
              Cardinality({j \in 1..Len(lm_calls) :
                              lm_calls[j].fn = fn /\ lm_calls[j].i = i}) <= 1

\* a batch of two mentions was linked to its end: they got different statuses,
\* one of them from the reranker, and dedup_entities then merged them
C23_Witness ==
    /\ lm # None /\ lm.pc = "done" /\ Len(mentions) >= 2
    /\ \E i, j \in 1..Len(lm.out) : i # j /\ lm.out[i].status # lm.out[j].status
    /\ \E j \in 1..Len(lm_calls) : lm_calls[j].fn = "rerank"
    /\ Len(linked) < Len(lm.out)

\* the places of the log that hold the calls made for mention i
calls_for(i) == {j \in 1..Len(lm_calls) : lm_calls[j].i = i}

\* the components called for mention i, in the order of the calls
RECURSIVE fns_for(_, _)
fns_for(log, i) ==
    IF log = << >> THEN << >>
    ELSE IF Head(log).i = i THEN <<Head(log).fn>> \o fns_for(Tail(log), i)
    ELSE fns_for(Tail(log), i)

\* what the call of the component for mention i returned
result_of(fn, i) ==
    lm_calls[CHOOSE j \in calls_for(i) : lm_calls[j].fn = fn].result

\* the entity carries no candidate and no link
unlinked(e) ==
    /\ e.top_candidates = << >>
    /\ e.linked_id = None /\ e.score = None /\ e.margin = None

\* the calls for the k-th mention and its entity, once the entity is built
steps_in_order(k) ==
    LET fired == cfg.include_negation
                    /\ is_negated(raw_fields, mentions[k], cfg.window_chars)
        check == IF cfg.include_negation THEN <<"is_negated">> ELSE << >>
    IN IF fired
       THEN /\ fns_for(lm_calls, k) = <<"is_negated">>
            /\ lm.out[k].status = "REJECTED" /\ unlinked(lm.out[k])
       ELSE IF result_of("retrieve", k) = << >>
       THEN /\ fns_for(lm_calls, k) = check \o <<"retrieve">>
            /\ lm.out[k].status = "UNRESOLVED" /\ unlinked(lm.out[k])
       ELSE /\ fns_for(lm_calls, k) = check \o <<"retrieve", "rerank">>
            /\ lm.out[k].status =
                  assign_status(result_of("rerank", k).best_score,
                                result_of("rerank", k).margin, cfg.tau, cfg.delta)

\* C24: for every mention the steps run in the order negation check,
\* retrieve, rerank, status.  For a mention on which the negation detector
\* fires neither the retriever nor the reranker is called; for a mention whose
\* retrieval is empty the reranker is not called and the entity is UNRESOLVED
\* with empty top_candidates and absent linked_id, score and margin.
C24_StepsInOrder ==
    lm # None =>
        /\ \A k \in 1..Len(lm.out) : steps_in_order(k)
        /\ \A j \in 1..Len(lm_calls) : \A h \in 1..Len(lm_calls) :
              j < h => lm_calls[j].i <= lm_calls[h].i
        /\ \A j \in 1..Len(lm_calls) :
              lm_calls[j].fn = "rerank" =>
                  /\ result_of("retrieve", lm_calls[j].i) # << >>
                  /\ \E h \in 1..(j - 1) :
                        lm_calls[h].fn = "retrieve" /\ lm_calls[h].i = lm_calls[j].i

\* one batch held a mention the detector fired on and one whose retrieval was
\* empty
C24_Witness ==
    /\ lm # None /\ lm.pc = "done"
    /\ \E k \in 1..Len(lm.out) : fns_for(lm_calls, k) = <<"is_negated">>
    /\ \E k \in 1..Len(lm.out) :
          /\ fns_for(lm_calls, k) = <<"is_negated", "retrieve">>
          /\ lm.out[k].status = "UNRESOLVED"

\* C25: the entity built from a non-empty rerank result holds the first top_n
\* entries of the reranked list when it is AMBIGUOUS or UNRESOLVED, and the
\* single best candidate when it is RESOLVED, and the candidate_id of that one
\* is its linked_id.
C25_CandidateRetention ==
    lm # None =>
        \A k \in 1..Len(lm.out) :
            "rerank" \in Range(fns_for(lm_calls, k)) =>
                /\ result_of("rerank", k).top # << >>
                /\ lm.out[k].status \in {"AMBIGUOUS", "UNRESOLVED"} =>
                      /\ Len(lm.out[k].top_candidates)
                            = Min(cfg.top_n, Len(result_of("rerank", k).top))
                      /\ \A n \in 1..Len(lm.out[k].top_candidates) :
                            lm.out[k].top_candidates[n] = result_of("rerank", k).top[n]
                /\ lm.out[k].status = "RESOLVED" =>
                      /\ lm.out[k].top_candidates = <<result_of("rerank", k).top[1]>>
                      /\ <<result_of("rerank", k).top[1]>> = result_of("rerank", k).best
                      /\ lm.out[k].linked_id
                            = Some(lm.out[k].top_candidates[1].candidate_id)
                /\ lm.out[k].status # "REJECTED"

\* one entity kept all of its two candidates, another was cut to top_n, and a
\* RESOLVED one kept its best
C25_Witness ==
    /\ lm # None /\ lm.pc = "done"
    /\ \E k \in 1..Len(lm.out) :
          /\ lm.out[k].status \in {"AMBIGUOUS", "UNRESOLVED"}
          /\ "rerank" \in Range(fns_for(lm_calls, k))
          /\ Len(lm.out[k].top_candidates) < Len(result_of("rerank", k).top)
    /\ \E k \in 1..Len(lm.out) :
          lm.out[k].status = "RESOLVED" /\ Len(lm.out[k].top_candidates) = 1

\* the negation phrases, in lower case
NegationPhrases ==
    { <<"n", "o">>, <<"n", "o", "t">>, <<"w", "i", "t", "h", "o", "u", "t">>,
      <<"n", "e", "g", "a", "t", "i", "v", "e", " ", "f", "o", "r">>,
      <<"n", "o", " ", "e", "v", "i", "d", "e", "n", "c", "e", " ", "o", "f">> }

\* text[max(0, start - W) : min(len, end + W)]
window_of(text, m, W) ==
    [k \in 1..(Min(Len(text), m.end + W) - Max(0, m.start - W)) |->
        text[Max(0, m.start - W) + k]]

\* the phrase stands in w as whole words, in any case
occurs_whole(phrase, w) ==
    \E i \in 1..Len(w) :
        /\ i + Len(phrase) - 1 <= Len(w)
        /\ \A k \in 1..Len(phrase) : lower(w[i + k - 1]) = phrase[k]
        /\ i = 1 \/ ~isword(w[i - 1])
        /\ i + Len(phrase) - 1 = Len(w) \/ ~isword(w[i + Len(phrase)])

\* a negation phrase stands in the window of the mention in its own field
negated_in_window(raw, m, W) ==
    /\ m.source_field \in DOMAIN raw
    /\ raw[m.source_field] # << >>
    /\ \E phrase \in NegationPhrases :
          occurs_whole(phrase, window_of(raw[m.source_field], m, W))

\* raw_fields with a negation as the text of every field but the one named
other_fields_negated(raw, field) ==
    [f \in DOMAIN raw |-> IF f = field THEN raw[f] ELSE <<"n", "o">>]

\* windows around the default, from none to the whole field
NegationWindows == {0, 1, 3, 60}

\* C28: is_negated(raw_fields, m, W) is true exactly when one of the negation
\* patterns (no, not, without, negative for, no evidence of; whole words, any
\* case) occurs inside raw_fields[m.source_field][max(0, m.start - W) :
\* min(len, m.end + W)], before, inside or after the mention; it is false when
\* the field is missing or empty, and the text of the other fields never
\* changes the result.
C28_NegationWindow ==
    /\ \A j \in 1..Len(lm_calls) :
          lm_calls[j].fn = "is_negated" =>
              lm_calls[j].result
                  = negated_in_window(raw_fields, mentions[lm_calls[j].i], cfg.window_chars)
    /\ \A i \in 1..Len(mentions) : \A W \in NegationWindows :
          /\ is_negated(raw_fields, mentions[i], W)
                = negated_in_window(raw_fields, mentions[i], W)
          /\ is_negated(other_fields_negated(raw_fields, mentions[i].source_field),
                        mentions[i], W)
                = is_negated(raw_fields, mentions[i], W)

\* the detector fired on a mention that only a later word negates, and did
\* not fire on a mention of a field without negation while the other field
\* holds one
C28_Witness ==
    /\ \E j \in 1..Len(lm_calls) :
          /\ lm_calls[j].fn = "is_negated" /\ lm_calls[j].result
          /\ mentions[lm_calls[j].i].start = 0
          /\ ~occurs_whole(mentions[lm_calls[j].i].surface_form, <<"n", "o">>)
    /\ \E j \in 1..Len(lm_calls) :
          /\ lm_calls[j].fn = "is_negated" /\ ~lm_calls[j].result
          /\ mentions[lm_calls[j].i].source_field = "title"
          /\ negated_in_window(raw_fields, [mentions[lm_calls[j].i] EXCEPT
                                              !.source_field = "summary"], 60)

\* the dedup key: (label, ID::linked_id) for RESOLVED, (label, SF::normalized
\* surface_form) otherwise
dedup_key(e) ==
    IF e.status = "RESOLVED"
    THEN <<e.label, "ID::", e.linked_id>>
    ELSE <<e.label, "SF::", normalize_text(e.surface_form)>>

\* the provenance offsets of the entities of es that have the key
provenances_of(es, k) ==
    UNION {Range(es[i].provenances) : i \in {j \in 1..Len(es) : dedup_key(es[j]) = k}}

\* C29: in the output of dedup_entities no two entities share a dedup key, a
\* RESOLVED entity is never merged with one that is not RESOLVED, every
\* provenance offset of every input entity is held by the output entity of
\* its key, which holds no other, and dedup_entities applied to its own
\* output returns it unchanged.
C29_DedupIdempotent ==
    (lm # None /\ lm.pc = "done") =>
        /\ \A i, j \in 1..Len(linked) : i # j => dedup_key(linked[i]) # dedup_key(linked[j])
        /\ {dedup_key(linked[i]) : i \in 1..Len(linked)}
              = {dedup_key(lm.out[i]) : i \in 1..Len(lm.out)}
        /\ \A i \in 1..Len(linked) :
              Range(linked[i].provenances) = provenances_of(lm.out, dedup_key(linked[i]))
        /\ \A k \in 1..Len(lm.out) : \A i \in 1..Len(linked) :
              dedup_key(lm.out[k]) = dedup_key(linked[i])
                  => (lm.out[k].status = "RESOLVED") = (linked[i].status = "RESOLVED")
        /\ dedup_entities(linked) = linked

\* dedup_entities merged two entities of different statuses into one that
\* holds the offsets of both
C29_Witness ==
    /\ lm # None /\ lm.pc = "done"
    /\ Len(lm.out) = 2 /\ lm.out[1].status # lm.out[2].status
    /\ Len(linked) = 1 /\ Len(linked[1].provenances) = 2

-----------------------------------------------------------------------------
(* rerank on its own, for the fallback reranker and for two cross-encoder  *)
(* models, over candidate lists that are empty, hold one candidate, hold   *)
(* equal scores, repeat a candidate_id, and come in any order              *)

MaxCands == 3

Rerankers == {"dummy", "flat", "len"}

\* incoming candidates: three concepts, two scores, with and without a
\* definition and a source
RerankCandidates ==
    {Candidate(cid, <<"c">>, sc[1], sc[2], sc[3]) :
        cid \in {"TOY:1", "TOY:2", "TOY:3"},
        sc \in {<<60, None, None>>, <<90, Some("vector"), None>>,
                <<90, Some("lexical_norm"), Some("def")>>}}

RerankInputs ==
    [reranker : Rerankers, mention_text : {<<"c">>, <<"c", "d">>}, context : {<<"n", "o">>},
     candidates : UNION {[1..n -> RerankCandidates] : n \in 0..MaxCands}]

InitRerank ==
    /\ rr_in \in RerankInputs
    /\ rr_out = None
    /\ IdleLink /\ IdleStatus /\ IdleExtract /\ IdleIndex /\ IdleWorkers /\ IdlePipeline
    /\ IdleRetrieve /\ IdleReport /\ IdleConfig /\ IdleSteps

\* reranker.rerank(mention_text, context, candidates)
Rerank ==
    /\ rr_out = None
    /\ rr_out' = Some(rerank(rr_in.reranker, rr_in.mention_text, rr_in.context,
                              rr_in.candidates))
    /\ UNCHANGED <<rr_in, linkVars, statusVars, extractVars, indexVars, workerVars,
                   pipelineVars, retrieveVars, reportVars, configVars, stepVars>>

NextRerank == Rerank

SpecRerank == InitRerank /\ [][NextRerank]_vars

\* the score the reranker of the call gives the incoming candidate c
rerank_score(in, c) ==
    IF in.reranker = "dummy" THEN c.score
    ELSE predict(in.reranker, query_of(in.mention_text, in.context),
                 c.candidate_label, c.definition)

\* how many candidates of the list have the id and the score
n_scored(in, cid, score) ==
    Cardinality({i \in 1..Len(in.candidates) :
                    /\ in.candidates[i].candidate_id = cid
                    /\ rerank_score(in, in.candidates[i]) = score})

\* C27: rerank returns top sorted by descending score with ties in ascending
\* candidate_id order, holding every incoming candidate once with its rerank
\* score (its incoming score for the fallback reranker); best is top[0] and
\* best_score its score; margin is top[0].score - top[1].score, never negative,
\* for two candidates or more, and 1.0 for one; on empty input best is None,
\* best_score and margin are 0 and top is empty.
C27_RerankResult ==
    rr_out # None =>
        LET rr == rr_out[1]
            n == Len(rr_in.candidates)
        IN  /\ Len(rr.top) = n
            /\ \A i, j \in 1..n :
                  i < j => \/ rr.top[i].score > rr.top[j].score
                           \/ /\ rr.top[i].score = rr.top[j].score
                              /\ ~StrLt(rr.top[j].candidate_id, rr.top[i].candidate_id)
            /\ \A i \in 1..n :
                  Cardinality({j \in 1..n : /\ rr.top[j].candidate_id = rr.top[i].candidate_id
                                            /\ rr.top[j].score = rr.top[i].score})
                      = n_scored(rr_in, rr.top[i].candidate_id, rr.top[i].score)
            /\ n = 0 => rr.best = None /\ rr.best_score = 0 /\ rr.margin = 0 /\ rr.top = << >>
            /\ n > 0 => rr.best = Some(rr.top[1]) /\ rr.best_score = rr.top[1].score
            /\ n = 1 => rr.margin = 100
            /\ n > 1 => rr.margin = rr.top[1].score - rr.top[2].score /\ rr.margin >= 0

\* three candidates came in ascending score order with the two best apart and
\* the two last equal, and rerank put them in descending order, the equal
\* ones by candidate_id
C27_Witness ==
    /\ rr_out # None /\ Len(rr_in.candidates) = 3
    /\ rr_in.reranker = "dummy"
    /\ rr_in.candidates[3].score > rr_in.candidates[2].score
    /\ rr_in.candidates[1].score = rr_in.candidates[2].score
    /\ StrLt(rr_in.candidates[2].candidate_id, rr_in.candidates[1].candidate_id)
    /\ rr_out[1].margin > 0
    /\ rr_out[1].top[2].candidate_id = rr_in.candidates[2].candidate_id

=============================================================================
